---- MODULE Spec2Model ----
(***************************************************************************)
(* Verification model of skipper: the worker manifest codec, the event     *)
(* router, the GitHub App credential runtime and the webhook handler.      *)
(*                                                                         *)
(* Strings.  A string is a sequence of units.  In worker definitions a     *)
(* unit is a TLA+ string standing for a non-empty run of characters of one *)
(* class (" " is whitespace, "-" a hyphen).  In stack parameter values a   *)
(* unit is a tuple whose first component is a tag: <<" ">> is whitespace,  *)
(* <<"z", t>> a unit of compressed base64 text, <<"h", t>> a unit of a hex *)
(* digest, <<"int", n>> the decimal rendering of n, <<name>> literal text. *)
(* undefined is None, a defined value v is Some(v).                        *)
(***************************************************************************)
EXTENDS Integers, Sequences, FiniteSets, TLC

None == <<>>
Some(v) == <<v>>

Ok(v) == [ok |-> TRUE, value |-> v, error |-> ""]
Err(msg) == [ok |-> FALSE, value |-> None, error |-> msg]

(* a function of a finite domain, held as the table of its values *)
Tabulated(f) == f @@ <<>>

(* const name = v; body -- a bound value is computed once where it is bound *)
With(v, body(_)) == body(v)
With2(a, b, body(_, _)) == body(a, b)
With3(a, b, c, body(_, _, _)) == body(a, b, c)
With4(a, b, c, d, body(_, _, _, _)) == body(a, b, c, d)

SetMin(S) == CHOOSE m \in S : \A o \in S : m <= o
SetMax(S) == CHOOSE m \in S : \A o \in S : m >= o

(* the first failed result of a sequence of results, in order *)
FirstError(results) == results[SetMin({i \in 1..Len(results) : ~results[i].ok})]
AllOk(results) == \A i \in 1..Len(results) : results[i].ok
Values(results) == [i \in 1..Len(results) |-> results[i].value]

(* String.prototype.trim on a string whose whitespace units satisfy IsSp *)
TrimBy(s, IsSp(_)) ==
    With({i \in 1..Len(s) : ~IsSp(s[i])},
         LAMBDA keep : IF keep = {} THEN <<>> ELSE SubSeq(s, SetMin(keep), SetMax(keep)))

IsSpaceUnit(u) == u = " "
IsSpaceParamUnit(u) == u[1] = " "

TrimText(s) == TrimBy(s, IsSpaceUnit)
TrimParam(s) == TrimBy(s, IsSpaceParamUnit)

(***************************************************************************)
(* Worker contract (src/worker/contract.ts).  A worker definition is       *)
(* [metadata |-> [id, type, description, enabled, version],                *)
(*  triggers |-> sequence of [provider, event, actions, if],               *)
(*  runtime |-> [prompt, agent, mode, allowPush, maxDurationMinutes, env]] *)
(* with the optional fields None or Some(v); env is the sequence of the    *)
(* object's <<key, value>> entries.  label only qualifies the error text.  *)
(* The fields of a section are read in the order of the source and the     *)
(* first failure is the error thrown.                                      *)
(***************************************************************************)

(* units that are runs of [a-z0-9], case-insensitively *)
AlnumUnits == {"review", "lint", "fix", "a", "b", "c", "A", "7"}

(* /^[a-z0-9][a-z0-9-]*$/i *)
MatchesWorkerIdRegex(s) ==
    /\ s # <<>>
    /\ s[1] \in AlnumUnits
    /\ \A i \in 2..Len(s) : s[i] \in AlnumUnits \cup {"-"}

readOptionalString(o, label) ==
    IF o = None THEN Ok(None)
    ELSE With(TrimText(o[1]),
              LAMBDA normalized : IF normalized = <<>> THEN Err("must be non-empty")
                                  ELSE Ok(Some(normalized)))

readNonEmptyString(o, label) ==
    With(readOptionalString(o, label),
         LAMBDA normalized : IF ~normalized.ok THEN normalized
                             ELSE IF normalized.value = None THEN Err("is required")
                             ELSE Ok(normalized.value[1]))

readOptionalNumber(o, label) ==
    IF o = None THEN Ok(None)
    ELSE IF o[1] <= 0 THEN Err("must be a positive number")
    ELSE Ok(o)

readOptionalStringArray(o, label) ==
    IF o = None THEN Ok(None)
    ELSE With([i \in 1..Len(o[1]) |-> readNonEmptyString(Some(o[1][i]), label)],
              LAMBDA result : IF AllOk(result) THEN Ok(Some(Values(result)))
                              ELSE FirstError(result))

parseWorkerId(s) ==
    With(readNonEmptyString(Some(s), "metadata.id"),
         LAMBDA workerId : IF ~workerId.ok THEN workerId
                           ELSE IF ~MatchesWorkerIdRegex(workerId.value)
                                THEN Err("invalid metadata.id")
                           ELSE workerId)

parseMetadata(value) ==
    With(<< parseWorkerId(value.id),
            readNonEmptyString(Some(value.type), "metadata.type"),
            readOptionalString(value.description, "metadata.description"),
            readOptionalString(value.version, "metadata.version") >>,
         LAMBDA read :
            IF ~AllOk(read) THEN FirstError(read)
            ELSE Ok([id |-> read[1].value, type |-> read[2].value,
                     description |-> read[3].value, enabled |-> value.enabled,
                     version |-> read[4].value]))

parseTriggerFilter(o) ==
    IF o = None THEN Ok(None)
    ELSE With(<< readOptionalStringArray(o[1].repository, "if.repository"),
                 readOptionalStringArray(o[1].baseBranches, "if.baseBranches"),
                 readOptionalStringArray(o[1].headBranches, "if.headBranches") >>,
              LAMBDA read :
                 IF ~AllOk(read) THEN FirstError(read)
                 ELSE Ok(Some([repository |-> read[1].value, baseBranches |-> read[2].value,
                               headBranches |-> read[3].value, draft |-> o[1].draft])))

(* provider !== "github" *)
CheckProvider(provider) ==
    IF provider.ok /\ provider.value # <<"github">> THEN Err("invalid provider") ELSE provider

parseTrigger(value) ==
    With(<< CheckProvider(readNonEmptyString(Some(value.provider), "provider")),
            readNonEmptyString(Some(value.event), "event"),
            readOptionalStringArray(value.actions, "actions"),
            parseTriggerFilter(value.if) >>,
         LAMBDA read :
            IF ~AllOk(read) THEN FirstError(read)
            ELSE Ok([provider |-> read[1].value, event |-> read[2].value,
                     actions |-> read[3].value, if |-> read[4].value]))

parseTriggers(value) ==
    IF Len(value) = 0 THEN Err("missing triggers")
    ELSE With([i \in 1..Len(value) |-> parseTrigger(value[i])],
              LAMBDA entries : IF AllOk(entries) THEN Ok(Values(entries))
                               ELSE FirstError(entries))

parseRuntimeAgent(o) ==
    IF o = None THEN Ok(None)
    ELSE IF o[1] # <<"claude">> /\ o[1] # <<"opencode">> THEN Err("invalid runtime.agent")
    ELSE Ok(o)

parseRuntimeMode(o) ==
    IF o = None THEN Ok(None)
    ELSE IF o[1] # <<"comment-only">> /\ o[1] # <<"apply">> THEN Err("invalid runtime.mode")
    ELSE Ok(o)

parseRuntime(value) ==
    With(<< readNonEmptyString(Some(value.prompt), "runtime.prompt"),
            readOptionalString(value.agent, "runtime.agent"),
            readOptionalString(value.mode, "runtime.mode"),
            readOptionalNumber(value.maxDurationMinutes, "runtime.maxDurationMinutes") >>,
         LAMBDA read :
            IF ~AllOk(read) THEN FirstError(read)
            ELSE With(<< parseRuntimeAgent(read[2].value), parseRuntimeMode(read[3].value) >>,
                      LAMBDA parsed :
                         IF ~AllOk(parsed) THEN FirstError(parsed)
                         ELSE Ok([prompt |-> read[1].value, agent |-> parsed[1].value,
                                  mode |-> parsed[2].value, allowPush |-> value.allowPush,
                                  maxDurationMinutes |-> read[4].value, env |-> value.env])))

(* metadata.enabled ?? true *)
DefaultEnabled(o) == IF o = None THEN Some(TRUE) ELSE o

parseWorkerDefinition(value) ==
    With(<< parseMetadata(value.metadata), parseTriggers(value.triggers),
            parseRuntime(value.runtime) >>,
         LAMBDA section :
            IF ~AllOk(section) THEN FirstError(section)
            ELSE Ok([metadata |-> [section[1].value EXCEPT !.enabled = DefaultEnabled(@)],
                     triggers |-> section[2].value,
                     runtime |-> section[3].value]))

(***************************************************************************)
(* JSON text.  JSON.stringify writes one token per member that is not      *)
(* undefined, <<key, value>>, and bracket tokens around objects and arrays;*)
(* members whose value is undefined are dropped.                           *)
(***************************************************************************)

Member(key, v) == << <<key, v>> >>
OptionalMember(key, o) == IF o = None THEN <<>> ELSE << <<key, o[1]>> >>

RECURSIVE Flatten(_)
Flatten(seqs) == IF seqs = <<>> THEN <<>> ELSE Head(seqs) \o Flatten(Tail(seqs))

StringifyFilter(f) ==
    << <<"if{">> >> \o OptionalMember("repository", f.repository)
        \o OptionalMember("baseBranches", f.baseBranches)
        \o OptionalMember("headBranches", f.headBranches)
        \o OptionalMember("draft", f.draft) \o << <<"}">> >>

StringifyTrigger(t) ==
    << <<"{">> >> \o Member("provider", t.provider) \o Member("event", t.event)
        \o OptionalMember("actions", t.actions)
        \o (IF t.if = None THEN <<>> ELSE StringifyFilter(t.if[1])) \o << <<"}">> >>

StringifyWorker(w) ==
    << <<"{">>, <<"metadata{">> >>
        \o Member("id", w.metadata.id) \o Member("type", w.metadata.type)
        \o OptionalMember("description", w.metadata.description)
        \o OptionalMember("enabled", w.metadata.enabled)
        \o OptionalMember("version", w.metadata.version)
        \o << <<"}">>, <<"triggers[">> >>
        \o Flatten([i \in 1..Len(w.triggers) |-> StringifyTrigger(w.triggers[i])])
        \o << <<"]">>, <<"runtime{">> >>
        \o Member("prompt", w.runtime.prompt)
        \o OptionalMember("agent", w.runtime.agent)
        \o OptionalMember("mode", w.runtime.mode)
        \o OptionalMember("allowPush", w.runtime.allowPush)
        \o OptionalMember("maxDurationMinutes", w.runtime.maxDurationMinutes)
        \o OptionalMember("env", w.runtime.env)
        \o << <<"}">>, <<"}">> >>

(* JSON.stringify(manifest), manifest = [workers |-> sequence of workers] *)
JSON_stringify(workerManifest) ==
    << <<"{workers[">> >>
        \o Flatten([i \in 1..Len(workerManifest.workers) |-> StringifyWorker(workerManifest.workers[i])])
        \o << <<"]}">> >>

(***************************************************************************)
(* Worker definitions the model works with                                 *)
(***************************************************************************)

MaxWorkers == 2

NoFilter == [repository |-> None, baseBranches |-> None, headBranches |-> None, draft |-> None]

WorkerReview ==
    [metadata |-> [id |-> <<"review">>, type |-> <<"code-review">>, description |-> None,
                   enabled |-> Some(TRUE), version |-> None],
     triggers |-> << [provider |-> <<"github">>, event |-> <<"pull_request">>,
                      actions |-> Some(<< <<"opened">> >>), if |-> None] >>,
     runtime |-> [prompt |-> <<"Review", " ", "only">>, agent |-> None,
                  mode |-> Some(<<"comment-only">>), allowPush |-> Some(FALSE),
                  maxDurationMinutes |-> None, env |-> None]]

WorkerLint ==
    [metadata |-> [id |-> <<"lint">>, type |-> <<"lint">>, description |-> Some(<<"Lint", " ", "api">>),
                   enabled |-> Some(FALSE), version |-> Some(<<"7">>)],
     triggers |-> << [provider |-> <<"github">>, event |-> <<"pull_request">>, actions |-> None,
                      if |-> Some([NoFilter EXCEPT !.repository = Some(<< <<"acme/api">> >>),
                                                   !.draft = Some(FALSE)])] >>,
     runtime |-> [prompt |-> <<"Lint">>, agent |-> Some(<<"claude">>), mode |-> None,
                  allowPush |-> None, maxDurationMinutes |-> Some(30),
                  env |-> Some(<< <<"KEY", "value">> >>)]]

WorkerFix ==
    [metadata |-> [id |-> <<"fix", "-", "a">>, type |-> <<"fix">>, description |-> None,
                   enabled |-> Some(TRUE), version |-> None],
     triggers |-> << [provider |-> <<"github">>, event |-> <<"issues">>, actions |-> None, if |-> None],
                     [provider |-> <<"github">>, event |-> <<"issue_comment">>,
                      actions |-> Some(<< <<"created">> >>), if |-> None] >>,
     runtime |-> [prompt |-> <<"Fix">>, agent |-> None, mode |-> None, allowPush |-> None,
                  maxDurationMinutes |-> None, env |-> None]]

(* hand-written definition that parseWorkerDefinition accepts and normalises *)
WorkerRaw ==
    [metadata |-> [id |-> <<" ", "a">>, type |-> <<"fix">>, description |-> None,
                   enabled |-> None, version |-> None],
     triggers |-> << [provider |-> <<"github">>, event |-> <<"issues">>, actions |-> None, if |-> None] >>,
     runtime |-> [prompt |-> <<"Fix", " ">>, agent |-> None, mode |-> Some(<<"apply">>),
                  allowPush |-> None, maxDurationMinutes |-> None, env |-> None]]

(* hand-written definition that parseWorkerDefinition rejects *)
WorkerBadId == [WorkerFix EXCEPT !.metadata.id = <<"-", "a">>]

WorkerPool == {WorkerReview, WorkerLint, WorkerFix, WorkerRaw, WorkerBadId}

SeqsUpTo(S, n) == UNION {[1..k -> S] : k \in 0..n}

Manifests == {[workers |-> ws] : ws \in SeqsUpTo(WorkerPool, MaxWorkers)}

(***************************************************************************)
(* Library functions the codec calls                                       *)
(***************************************************************************)

JsonTextOf == Tabulated([m \in Manifests |-> JSON_stringify(m)])

(* JSON.parse: the value whose text this is, or a syntax error *)
JsonTexts == {JsonTextOf[m] : m \in Manifests}

(* the value each JSON text stands for *)
JsonValueOf == Tabulated([raw \in JsonTexts |-> CHOOSE m \in Manifests : JsonTextOf[m] = raw])

parseUnknownJson(raw) ==
    IF raw \in JsonTexts THEN Ok(JsonValueOf[raw]) ELSE Err("invalid JSON for worker manifest")

(* createHash("sha256").update(value).digest("hex"): collision-free digest *)
sha256Hex(value) == [i \in 1..Len(value) |-> <<"h", value[i]>>]

(* gzipSync(...).toString("base64"): the gzip header, then the deflated text *)
gzipBase64(text) == << <<"H4sI">> >> \o [i \in 1..Len(text) |-> <<"z", text[i]>>]

NotSpaceParamUnit(u) == ~IsSpaceParamUnit(u)

(* gunzipSync(Buffer.from(encoded, "base64")): base64 decoding skips        *)
(* whitespace; gunzip throws unless the bytes are a gzip stream            *)
gunzipBase64(encoded) ==
    With(SelectSeq(encoded, NotSpaceParamUnit),
         LAMBDA bytes :
            IF bytes = <<>> \/ Head(bytes) # <<"H4sI">> \/ \E i \in 2..Len(bytes) : bytes[i][1] # "z"
            THEN Err("gunzip failed")
            ELSE Ok([i \in 1..(Len(bytes) - 1) |-> bytes[i + 1][2]]))

(***************************************************************************)
(* Manifest codec (src/worker/aws-params.ts, src/worker/serialize.ts)      *)
(***************************************************************************)

WORKER_SCHEMA_VERSION == << <<"1">> >>
WORKER_CHUNK_COUNT == 12
(* 3500 characters in the source; one unit of the model stands for 875 *)
WORKER_CHUNK_SIZE == 4

WORKERS_ENCODING_PARAM == "WorkersEncoding"
WORKERS_SHA256_PARAM == "WorkersSha256"
WORKERS_SCHEMA_VERSION_PARAM == "WorkersSchemaVersion"
WORKERS_CHUNK_COUNT_PARAM == "WorkersChunkCount"
WORKERS_ENCODING == << <<"gzip-base64-v1">> >>

(* String(n) *)
String(n) == << <<"int", n>> >>

(* `WorkersChunk${index.toString().padStart(2, "0")}` *)
getWorkerChunkParameterKey(index) ==
    << "WorkersChunk00", "WorkersChunk01", "WorkersChunk02", "WorkersChunk03",
       "WorkersChunk04", "WorkersChunk05", "WorkersChunk06", "WorkersChunk07",
       "WorkersChunk08", "WorkersChunk09", "WorkersChunk10", "WorkersChunk11" >>[index + 1]

listWorkerChunkParameterKeys == [index \in 1..WORKER_CHUNK_COUNT |-> getWorkerChunkParameterKey(index - 1)]

ChunkKeySet == {listWorkerChunkParameterKeys[i] : i \in 1..WORKER_CHUNK_COUNT}

ParamKeys == {WORKERS_ENCODING_PARAM, WORKERS_SHA256_PARAM, WORKERS_SCHEMA_VERSION_PARAM,
              WORKERS_CHUNK_COUNT_PARAM} \cup ChunkKeySet

createDefaultWorkerParameterValues ==
    [key \in ParamKeys |->
        IF key = WORKERS_SCHEMA_VERSION_PARAM THEN Some(WORKER_SCHEMA_VERSION)
        ELSE IF key = WORKERS_CHUNK_COUNT_PARAM THEN Some(String(0))
        ELSE Some(<<>>)]

(* mutant: the last, partial chunk is dropped *)
chunkValue_DropsPartialChunk(value, chunkSize) ==
    [k \in 1..(Len(value) \div chunkSize) |-> SubSeq(value, (k - 1) * chunkSize + 1, k * chunkSize)]

chunkValue(value, chunkSize) ==
    [k \in 1..((Len(value) + chunkSize - 1) \div chunkSize) |->
        SubSeq(value, (k - 1) * chunkSize + 1,
               IF k * chunkSize < Len(value) THEN k * chunkSize ELSE Len(value))]

(* the chunk stored under key, or the default "" of an unused slot *)
ChunkParameter(chunks, key) ==
    With({index \in 1..Len(chunks) : listWorkerChunkParameterKeys[index] = key},
         LAMBDA at : IF at = {} THEN createDefaultWorkerParameterValues[key]
                     ELSE Some(chunks[CHOOSE index \in at : TRUE]))

(* encodeWorkerManifest from JSON.stringify on: serialize, compress, chunk *)
EncodeSerialized(workerManifest) ==
    With(JSON_stringify(workerManifest),
         LAMBDA serializedJson :
            With(chunkValue(gzipBase64(serializedJson), WORKER_CHUNK_SIZE),
                 LAMBDA chunks :
                    IF Len(chunks) > WORKER_CHUNK_COUNT THEN Err("worker manifest too large")
                    ELSE Ok([parameterValues |->
                                [key \in ParamKeys |->
                                    IF key = WORKERS_ENCODING_PARAM THEN Some(WORKERS_ENCODING)
                                    ELSE IF key = WORKERS_SCHEMA_VERSION_PARAM
                                         THEN Some(WORKER_SCHEMA_VERSION)
                                    ELSE IF key = WORKERS_SHA256_PARAM
                                         THEN Some(sha256Hex(serializedJson))
                                    ELSE IF key = WORKERS_CHUNK_COUNT_PARAM
                                         THEN Some(String(Len(chunks)))
                                    ELSE ChunkParameter(chunks, key)],
                             byteLength |-> Len(serializedJson),
                             workerCount |-> Len(workerManifest.workers)])))

(* mutant: the empty manifest is serialized like any other *)
encodeWorkerManifest_NoEmptyCase(workerManifest) == EncodeSerialized(workerManifest)

encodeWorkerManifest(workerManifest) ==
    IF Len(workerManifest.workers) = 0
    THEN Ok([parameterValues |-> createDefaultWorkerParameterValues, byteLength |-> 0, workerCount |-> 0])
    ELSE EncodeSerialized(workerManifest)

(* Number.parseInt(value, 10): skips leading whitespace, reads a leading    *)
(* integer and ignores what follows it; NaN when there is none             *)
parseInt(value) ==
    With(SelectSeq(value, NotSpaceParamUnit),
         LAMBDA rest : IF rest # <<>> /\ Head(rest)[1] = "int" THEN Some(Head(rest)[2]) ELSE None)

(* mutant: the range of the parsed count is not tested *)
readChunkCount_NoRange(value) ==
    IF value = None \/ value = Some(<<>>) THEN Ok(0)
    ELSE With(parseInt(value[1]),
              LAMBDA parsed : IF parsed = None THEN Err("invalid worker chunk count")
                              ELSE Ok(parsed[1]))

readChunkCount(value) ==
    IF value = None \/ value = Some(<<>>) THEN Ok(0)
    ELSE With(parseInt(value[1]),
              LAMBDA parsed :
                 IF parsed = None THEN Err("invalid worker chunk count")
                 ELSE IF parsed[1] < 0 \/ parsed[1] > WORKER_CHUNK_COUNT
                      THEN Err("invalid worker chunk count")
                 ELSE Ok(parsed[1]))

(* parameterValues[key]?.trim() *)
TrimmedParam(parameterMap, key) ==
    IF parameterMap[key] = None THEN None ELSE Some(TrimParam(parameterMap[key][1]))

OrEmpty(o) == IF o = None THEN <<>> ELSE o[1]

parseWorkerManifestJson(value) ==
    With(parseUnknownJson(value),
         LAMBDA parsed :
            IF ~parsed.ok THEN parsed
            ELSE With([index \in 1..Len(parsed.value.workers) |->
                          parseWorkerDefinition(parsed.value.workers[index])],
                      LAMBDA workers : IF AllOk(workers) THEN Ok([workers |-> Values(workers)])
                                       ELSE FirstError(workers)))

Decoded(decoded) == [kind |-> "manifest", manifest |-> Some(decoded), error |-> ""]
DecodedUndefined == [kind |-> "undefined", manifest |-> None, error |-> ""]
DecodeError(msg) == [kind |-> "error", manifest |-> None, error |-> msg]

(* mutant: the checksum comparison is missing *)
ChecksumMatches_Always(actualSha, sha) == TRUE

(* mutant: only the lengths of the two checksums are compared *)
ChecksumMatches_SameLength(actualSha, sha) == Len(actualSha) = Len(sha)

(* actualSha === sha *)
ChecksumMatches(actualSha, sha) == actualSha = sha

(* decodeWorkerManifest from the reassembled payload on *)
DecodePayload(encoded, sha) ==
    IF Len(encoded) = 0 THEN DecodeError("worker chunks missing")
    ELSE With(gunzipBase64(encoded),
              LAMBDA json :
                 IF ~json.ok THEN DecodeError(json.error)
                 ELSE With(parseWorkerManifestJson(json.value),
                           LAMBDA parsed :
                              IF ~parsed.ok THEN DecodeError(parsed.error)
                              ELSE IF ~ChecksumMatches(sha256Hex(json.value), sha)
                                   THEN DecodeError("worker manifest checksum mismatch")
                              ELSE Decoded(parsed.value)))

(* keys.slice(0, chunkCount).map((key) => parameterValues[key]?.trim() ?? "").join("") *)
JoinChunks(parameterMap, chunkCount) ==
    Flatten([index \in 1..chunkCount |->
                OrEmpty(TrimmedParam(parameterMap, listWorkerChunkParameterKeys[index]))])

(* mutant: a tag that is missing or blank passes for the expected one *)
TagDiffers_UnlessBlank(tag, expected) == tag # Some(expected) /\ OrEmpty(tag) # <<>>

(* encoding !== WORKERS_ENCODING, schemaVersion !== WORKER_SCHEMA_VERSION *)
TagDiffers(tag, expected) == tag # Some(expected)

decodeWorkerManifest(parameterMap) ==
    With2(readChunkCount(parameterMap[WORKERS_CHUNK_COUNT_PARAM]),
          OrEmpty(TrimmedParam(parameterMap, WORKERS_SHA256_PARAM)),
          LAMBDA chunkCount, sha :
             IF ~chunkCount.ok THEN DecodeError(chunkCount.error)
             ELSE IF chunkCount.value = 0 \/ Len(sha) = 0 THEN DecodedUndefined
             ELSE IF TagDiffers(TrimmedParam(parameterMap, WORKERS_ENCODING_PARAM),
                                WORKERS_ENCODING)
                  THEN DecodeError("unsupported workers encoding")
             ELSE IF TagDiffers(TrimmedParam(parameterMap, WORKERS_SCHEMA_VERSION_PARAM),
                                WORKER_SCHEMA_VERSION)
                  THEN DecodeError("unsupported workers schema version")
             ELSE DecodePayload(JoinChunks(parameterMap, chunkCount.value), sha))

(***************************************************************************)
(* State                                                                   *)
(***************************************************************************)

VARIABLES
    manifest,         \* the manifest handed to encodeWorkerManifest
    parameterValues,  \* the stack parameters: key -> None | Some(string)
    encodeResult,     \* None, or Some(result of encodeWorkerManifest(manifest))
    decodeResult,     \* None, or Some(result of decodeWorkerManifest(parameterValues))
    update            \* None, or Some(parameter values of a newer encoding being applied)

codecVars == <<manifest, parameterValues, encodeResult, decodeResult, update>>

VARIABLES
    routeManifest,    \* the parsed manifest handed to routeWorkers
    context,          \* the WorkerRouteContext of the incoming event
    matched           \* None, or Some(result of routeWorkers(routeManifest, context))

routeVars == <<routeManifest, context, matched>>

VARIABLES
    now,                     \* what deps.nowMs() returns
    keyValue,                \* the signing key held by the secret store
    installationTokenCache,  \* installation id -> None | Some(InstallationAccessToken)
    cachedPrivateKey,        \* None, or Some([value, loadedAtMs])
    privateKeyReads,         \* calls of deps.readPrivateKeyPem so far
    tokenMints,              \* calls of deps.createInstallationAccessToken so far
    lastMint                 \* None, or Some(the latest mintInstallationToken call)

mintVars == <<now, keyValue, installationTokenCache, cachedPrivateKey, privateKeyReads,
              tokenMints, lastMint>>

VARIABLES
    event,          \* the SQS event: the sequence of record bodies
    lambdaEnv,      \* process.env as read when the function module loads
    stack,          \* None, or Some(the worker parameters of the stack DescribeStacks returns)
    cachedWorkers,  \* None, or Some([sha256, manifest])
    recordIndex,    \* position of handler's loop in event.Records
    pc,             \* where handleRecord stands: the await it is at, or how handler ended
    inflight,       \* None, or Some(the locals of handleRecord)
    verified,       \* records whose body verifyWebhookBody has accepted
    skipped,        \* records handleRecord returned from for missing headers
    loads,          \* the calls of loadWorkersManifest, in order
    launches,       \* the RunTask calls sent, in order
    thrown          \* None, or Some(message of the error handler rejected with)

handlerVars == <<event, lambdaEnv, stack, cachedWorkers, recordIndex, pc, inflight, verified,
                 skipped, loads, launches, thrown>>

VARIABLES
    cfnStack,       \* the provider's stack: None, or Some([status])
    deployInput,    \* the input of deployStack: [timeoutMinutes]
    deployPc,       \* where deployStack stands: the await it is at, or how it ended
    clock,          \* Date.now(), in milliseconds
    deadline,       \* None, or Some(the deadline waitForTerminalStatus computed)
    current,        \* None, or Some(the status deployStack read before its update request)
    deployAction,   \* None, or Some("create" | "update" | "noop")
    requests,       \* the requests deployStack has sent to the provider
    updateAnswer,   \* None, or Some(what the provider answered to the update request)
    classified,     \* None, or Some([status, kind]) of the latest classifyStackStatus call
    terminal,       \* None, or Some(the status waitForTerminalStatus returned)
    deployOutcome   \* None, or Some(the result or the error deployStack ended with)

deployVars == <<cfnStack, deployInput, deployPc, clock, deadline, current, deployAction, requests,
                updateAnswer, classified, terminal, deployOutcome>>

VARIABLES
    flow,           \* the command line: [command, strict, dryRun, files]
    flowAt,         \* the number of the step of the command that is next
    workersLoaded,  \* None, or Some(the workers loadWorkers returned)
    workersEncoded, \* None, or Some(what encodeWorkerManifest returned or threw)
    remoteCalls,    \* the calls to remote services the command has made, in order
    flowEnd         \* None, or Some("done") or Some(the error the command ended with)

provisionVars == <<flow, flowAt, workersLoaded, workersEncoded, remoteCalls, flowEnd>>

VARIABLES
    sourceWorkers,        \* the worker definitions loadWorkers returned
    workerSubscriptions,  \* None, or Some(collectGithubEventSubscriptions(sourceWorkers))
    workerEvents          \* None, or Some(collectGithubEventsFromWorkers(sourceWorkers))

subscriptionVars == <<sourceWorkers, workerSubscriptions, workerEvents>>

VARIABLES
    taskWorker,       \* the matched worker an environment is built for
    taskPayload,      \* None, or Some(the payload of the message)
    taskProcessEnv,   \* process.env of the function
    taskEnvironment   \* None, or Some(the environment buildTaskEnvironments built)

environmentVars == <<taskWorker, taskPayload, taskProcessEnv, taskEnvironment>>

VARIABLES
    mintCalls,      \* the mintInstallationToken calls that overlap: number -> its locals
    storeReturned   \* the values deps.readPrivateKeyPem has resolved with

overlapVars == <<mintCalls, storeReturned>>

VARIABLES
    scopeManifest,      \* None, or Some(the manifest loadWorkersManifest gave the instance)
    scopeMessage,       \* the message: [payload, webhookMeta]
    scopeEnv,           \* process.env of the instance
    scopePc,            \* where handleRecord stands after the load
    scopeEnvironments,  \* None, or Some(what buildTaskEnvironments returned or threw)
    scopeLaunched       \* the environments runTask was called with, in order

scopeVars == <<scopeManifest, scopeMessage, scopeEnv, scopePc, scopeEnvironments, scopeLaunched>>

vars == <<codecVars, routeVars, mintVars, handlerVars, deployVars, provisionVars,
          subscriptionVars, environmentVars, overlapVars, scopeVars>>

(* the variables of the other components, which a step of one component leaves alone *)
nonCodecVars ==
    <<routeVars, mintVars, handlerVars, deployVars, provisionVars, subscriptionVars, environmentVars,
     overlapVars, scopeVars>>
nonRouteVars ==
    <<codecVars, mintVars, handlerVars, deployVars, provisionVars, subscriptionVars, environmentVars,
     overlapVars, scopeVars>>
nonMintVars ==
    <<codecVars, routeVars, handlerVars, deployVars, provisionVars, subscriptionVars, environmentVars,
     overlapVars, scopeVars>>
nonHandlerVars ==
    <<codecVars, routeVars, mintVars, deployVars, provisionVars, subscriptionVars, environmentVars,
     overlapVars, scopeVars>>
nonDeployVars ==
    <<codecVars, routeVars, mintVars, handlerVars, provisionVars, subscriptionVars, environmentVars,
     overlapVars, scopeVars>>
nonProvisionVars ==
    <<codecVars, routeVars, mintVars, handlerVars, deployVars, subscriptionVars, environmentVars,
     overlapVars, scopeVars>>
nonSubscriptionVars ==
    <<codecVars, routeVars, mintVars, handlerVars, deployVars, provisionVars, environmentVars,
      overlapVars, scopeVars>>
nonEnvironmentVars ==
    <<codecVars, routeVars, mintVars, handlerVars, deployVars, provisionVars, subscriptionVars,
      overlapVars, scopeVars>>
nonOverlapVars ==
    <<codecVars, routeVars, handlerVars, deployVars, provisionVars, subscriptionVars,
      environmentVars, scopeVars>>
nonScopeVars ==
    <<codecVars, routeVars, mintVars, handlerVars, deployVars, provisionVars, subscriptionVars,
      environmentVars, overlapVars>>

NoContext ==
    [provider |-> <<"github">>, event |-> <<>>, action |-> None, repository |-> None,
     baseBranch |-> None, headBranch |-> None, draft |-> None]

CodecIdle ==
    /\ manifest = [workers |-> <<>>]
    /\ parameterValues = createDefaultWorkerParameterValues
    /\ encodeResult = None
    /\ decodeResult = None
    /\ update = None

RouteIdle ==
    /\ routeManifest = [workers |-> <<>>]
    /\ context = NoContext
    /\ matched = None

(* A JavaScript number: NaN, or the quotient numerator / denominator in    *)
(* lowest terms with a positive denominator.                               *)
JsNumber(numerator, denominator) ==
    [nan |-> FALSE, numerator |-> numerator, denominator |-> denominator]

JsInteger(n) == JsNumber(n, 1)

NaN == [nan |-> TRUE, numerator |-> 0, denominator |-> 1]

(* Number.isInteger(value) *)
Number_isInteger_Always(value) == TRUE

Number_isInteger(value) == ~value.nan /\ value.numerator % value.denominator = 0

(* value <= 0, which is false of NaN *)
AtMostZero(value) == ~value.nan /\ value.numerator <= 0

InstallationIds == {JsInteger(1), JsInteger(2)}

(* the numbers a caller passes for an installation id *)
RequestedIds == InstallationIds \cup {JsInteger(0), JsInteger(-1), JsNumber(3, 2), NaN}

(* the runtime as createGitHubAppRuntime leaves it: both caches empty.    *)
(* The token cache is a Map, which answers any key it does not hold with   *)
(* undefined.                                                              *)
RuntimeCreated ==
    /\ installationTokenCache = [id \in RequestedIds |-> None]
    /\ cachedPrivateKey = None
    /\ privateKeyReads = 0
    /\ tokenMints = 0
    /\ lastMint = None

MintIdle ==
    /\ now = 0
    /\ keyValue = <<"pem-a">>
    /\ RuntimeCreated

(* the function module as loaded, before any record *)
ModuleLoaded ==
    /\ cachedWorkers = None
    /\ recordIndex = 1
    /\ inflight = None
    /\ verified = {}
    /\ skipped = {}
    /\ loads = <<>>
    /\ launches = <<>>
    /\ thrown = None

(* process.env of a function deployed without workers *)
BareLambdaEnv ==
    [WEBHOOK_SECRET |-> <<"shh">>, WORKERS_STACK_NAME |-> None, WORKERS_SHA256 |-> None,
     SKIPPER_WORKER_ID |-> None, PROMPT |-> None, GITHUB_TOKEN |-> None,
     ANTHROPIC_API_KEY |-> None]

HandlerIdle ==
    /\ event = <<>>
    /\ lambdaEnv = BareLambdaEnv
    /\ stack = None
    /\ pc = "done"
    /\ ModuleLoaded

(* deployStack has not been called *)
DeployIdle ==
    /\ cfnStack = None
    /\ deployInput = [timeoutMinutes |-> 0]
    /\ deployPc = "idle"
    /\ clock = 0
    /\ deadline = None
    /\ current = None
    /\ deployAction = None
    /\ requests = {}
    /\ updateAnswer = None
    /\ classified = None
    /\ terminal = None
    /\ deployOutcome = None

(* no command has been started *)
ProvisionIdle ==
    /\ flow = [command |-> "deploy", strict |-> FALSE, dryRun |-> FALSE, files |-> <<>>]
    /\ flowAt = 1
    /\ workersLoaded = None
    /\ workersEncoded = None
    /\ remoteCalls = <<>>
    /\ flowEnd = None

SubscriptionIdle ==
    /\ sourceWorkers = <<>>
    /\ workerSubscriptions = None
    /\ workerEvents = None

(* no instance scoped to a worker has taken up a message *)
ScopeIdle ==
    /\ scopeManifest = None
    /\ scopeMessage = None
    /\ scopeEnv = BareLambdaEnv
    /\ scopePc = "done"
    /\ scopeEnvironments = None
    /\ scopeLaunched = <<>>

(* no call of mintInstallationToken is under way *)
OverlapIdle ==
    /\ mintCalls = <<>>
    /\ storeReturned = {}

(* no environment is being built *)
EnvironmentIdle ==
    /\ taskWorker = WorkerReview
    /\ taskPayload = None
    /\ taskProcessEnv = BareLambdaEnv
    /\ taskEnvironment = None

(***************************************************************************)
(* Codec operations                                                        *)
(***************************************************************************)

MaxAppliedKeys == 2
MaxUpdateWorkers == 1

InitCodec ==
    /\ manifest \in Manifests
    /\ parameterValues = createDefaultWorkerParameterValues
    /\ encodeResult = None
    /\ decodeResult = None
    /\ update = None
    /\ RouteIdle
    /\ MintIdle
    /\ HandlerIdle
    /\ DeployIdle
    /\ ProvisionIdle
    /\ SubscriptionIdle
    /\ EnvironmentIdle
    /\ OverlapIdle
    /\ ScopeIdle

(* deploy: encode the manifest and store the result as stack parameters *)
Encode ==
    /\ encodeResult = None
    /\ encodeResult' = Some(encodeWorkerManifest(manifest))
    /\ parameterValues' = IF encodeResult'[1].ok THEN encodeResult'[1].value.parameterValues
                          ELSE parameterValues
    /\ UNCHANGED <<manifest, decodeResult, update>>
    /\ UNCHANGED nonCodecVars

(* the function reads the stack parameters *)
Decode ==
    /\ encodeResult # None
    /\ decodeResult = None
    /\ decodeResult' = Some(decodeWorkerManifest(parameterValues))
    /\ UNCHANGED <<manifest, parameterValues, encodeResult, update>>
    /\ UNCHANGED nonCodecVars

StoredChecksum == parameterValues[WORKERS_SHA256_PARAM][1]

TamperedChecksums(sha) ==
    { << <<"bad">> >>, << <<" ">> >>, << <<" ">> >> \o sha \o << <<" ">> >>,
      SubSeq(sha, 1, Len(sha) - 1) }
        \cup {sha256Hex(JsonTextOf[[workers |-> <<w>>]]) : w \in WorkerPool}

(* the stored checksum is replaced, everything else is left as encoded *)
TamperChecksum ==
    /\ encodeResult # None /\ encodeResult[1].ok
    /\ update = None
    /\ parameterValues = encodeResult[1].value.parameterValues
    /\ \E v \in TamperedChecksums(StoredChecksum) :
          /\ v # StoredChecksum
          /\ parameterValues' = [parameterValues EXCEPT ![WORKERS_SHA256_PARAM] = Some(v)]
    /\ decodeResult' = None
    /\ UNCHANGED <<manifest, encodeResult, update>>
    /\ UNCHANGED nonCodecVars

(* what a deploy of each manifest would write *)
EncodingOf == Tabulated([m \in Manifests |-> encodeWorkerManifest(m)])

(* a deploy of another manifest starts writing its parameters *)
BeginUpdate ==
    /\ encodeResult # None /\ encodeResult[1].ok
    /\ update = None
    /\ parameterValues = encodeResult[1].value.parameterValues
    /\ \E m \in Manifests :
          /\ m # manifest
          /\ Len(m.workers) <= MaxUpdateWorkers
          /\ \E newer \in {EncodingOf[m]} :
                /\ newer.ok
                /\ update' = Some(newer.value.parameterValues)
    /\ decodeResult' = None
    /\ UNCHANGED <<manifest, parameterValues, encodeResult>>
    /\ UNCHANGED nonCodecVars

AppliedKeys == {key \in ParamKeys : parameterValues[key] # encodeResult[1].value.parameterValues[key]}

(* one parameter of the newer encoding is written *)
ApplyUpdateKey ==
    /\ update # None
    /\ Cardinality(AppliedKeys) < MaxAppliedKeys
    /\ \E key \in ParamKeys :
          /\ parameterValues[key] # update[1][key]
          /\ parameterValues' = [parameterValues EXCEPT ![key] = update[1][key]]
    /\ decodeResult' = None
    /\ UNCHANGED <<manifest, encodeResult, update>>
    /\ UNCHANGED nonCodecVars

NextCodec == Encode \/ Decode \/ TamperChecksum \/ BeginUpdate \/ ApplyUpdateKey

SpecCodec == InitCodec /\ [][NextCodec]_vars

(***************************************************************************)
(* Properties of the codec                                                 *)
(***************************************************************************)

ValidManifest(m) == \A i \in 1..Len(m.workers) : parseWorkerDefinition(m.workers[i]).ok

InParsedForm(m) == \A i \in 1..Len(m.workers) : parseWorkerDefinition(m.workers[i]) = Ok(m.workers[i])

Encoded == encodeResult # None /\ encodeResult[1].ok

EncodedValues == encodeResult[1].value.parameterValues

StoredAsEncoded == Encoded /\ update = None /\ parameterValues = EncodedValues

(* C1: a non-empty manifest of workers in the form parseWorkerDefinition   *)
(* returns, whose encoding fits the chunk slots, decodes from its own      *)
(* encoding to an equal manifest, workers in the same order                *)
C1_RoundTrip ==
    (StoredAsEncoded /\ decodeResult # None /\ Len(manifest.workers) > 0 /\ InParsedForm(manifest))
        => decodeResult[1] = Decoded(manifest)

C1_Witness ==
    /\ StoredAsEncoded /\ decodeResult # None /\ InParsedForm(manifest)
    /\ Len(manifest.workers) = 2
    /\ manifest.workers[1] # manifest.workers[2]
    /\ decodeResult[1].kind = "manifest"

OnlyChecksumReplaced ==
    /\ Encoded /\ update = None
    /\ \A key \in ParamKeys \ {WORKERS_SHA256_PARAM} : parameterValues[key] = EncodedValues[key]
    /\ parameterValues[WORKERS_SHA256_PARAM] # EncodedValues[WORKERS_SHA256_PARAM]

ChecksumError == DecodeError("worker manifest checksum mismatch")

(* C2 as stated: any different non-empty checksum value makes the decode of *)
(* a valid non-empty manifest fail with the checksum error                 *)
C2_AnyDifferentChecksumFails ==
    (OnlyChecksumReplaced /\ decodeResult # None /\ Len(manifest.workers) > 0
        /\ ValidManifest(manifest) /\ StoredChecksum # <<>>)
        => decodeResult[1] = ChecksumError

(* C2 amended: a checksum value whose trimmed form is non-empty and differs *)
(* from the checksum as encoded makes the decode of a valid non-empty      *)
(* manifest fail with the checksum error; no manifest is returned          *)
C2_DifferentTrimmedChecksumFails ==
    (OnlyChecksumReplaced /\ decodeResult # None /\ Len(manifest.workers) > 0
        /\ ValidManifest(manifest)
        /\ TrimParam(StoredChecksum) # <<>>
        /\ TrimParam(StoredChecksum) # EncodedValues[WORKERS_SHA256_PARAM][1])
        => decodeResult[1] = ChecksumError

C2_Witness ==
    /\ OnlyChecksumReplaced /\ decodeResult # None /\ Len(manifest.workers) > 0
    /\ ValidManifest(manifest)
    /\ StoredChecksum = << <<"bad">> >>
    /\ decodeResult[1] = ChecksumError

(* C4: the empty manifest encodes to the all-empty parameter values with   *)
(* chunk count "0" and worker count 0, and these decode to 'no manifest'   *)
C4_EmptyManifest ==
    (encodeResult # None /\ Len(manifest.workers) = 0)
        => /\ encodeResult[1].ok
           /\ encodeResult[1].value.workerCount = 0
           /\ EncodedValues[WORKERS_CHUNK_COUNT_PARAM] = Some(<< <<"int", 0>> >>)
           /\ EncodedValues[WORKERS_SHA256_PARAM] = Some(<<>>)
           /\ EncodedValues[WORKERS_ENCODING_PARAM] = Some(<<>>)
           /\ \A key \in ChunkKeySet : EncodedValues[key] = Some(<<>>)
           /\ (StoredAsEncoded /\ decodeResult # None) => decodeResult[1] = DecodedUndefined

C4_Witness ==
    /\ StoredAsEncoded /\ Len(manifest.workers) = 0
    /\ decodeResult = Some(DecodedUndefined)

UpdateValues == update[1]

ChunkCountRead == readChunkCount(parameterValues[WORKERS_CHUNK_COUNT_PARAM])

ChunksRead == {listWorkerChunkParameterKeys[i] : i \in 1..(IF ChunkCountRead.ok THEN ChunkCountRead.value ELSE 0)}

(* the parameters whose values decodeWorkerManifest reads on the way to its result *)
KeysRead ==
    {WORKERS_CHUNK_COUNT_PARAM, WORKERS_SHA256_PARAM}
        \cup (IF decodeResult[1].kind = "manifest"
              THEN {WORKERS_ENCODING_PARAM, WORKERS_SCHEMA_VERSION_PARAM} \cup ChunksRead
              ELSE {})

MixtureDecoded == Encoded /\ update # None /\ decodeResult # None

(* C3 as stated: a mixture of two encodings decodes without error only if   *)
(* every value read comes from the same one of the two encodings           *)
C3_MixtureNeverAccepted ==
    (MixtureDecoded /\ decodeResult[1].kind # "error")
        => \E E \in {EncodedValues, UpdateValues} : \A key \in KeysRead : parameterValues[key] = E[key]

Payload(values) == JoinChunks(values, readChunkCount(values[WORKERS_CHUNK_COUNT_PARAM]).value)

(* C3 amended: a mixture of two encodings decodes to a manifest only if the *)
(* checksum, the encoding id, the schema version and the payload           *)
(* reassembled from chunks 0..chunkCount-1 are those of the same one of    *)
(* the two encodings, and the manifest returned is the one that encoding   *)
(* decodes to; it decodes to 'no manifest' only if the chunk count read is *)
(* 0 or the checksum read is blank; every other mixture is an error        *)
C3_MixtureConsistent ==
    MixtureDecoded =>
        /\ decodeResult[1].kind = "manifest" =>
              \E E \in {EncodedValues, UpdateValues} :
                  /\ \A key \in {WORKERS_SHA256_PARAM, WORKERS_ENCODING_PARAM,
                                 WORKERS_SCHEMA_VERSION_PARAM} : parameterValues[key] = E[key]
                  /\ Payload(parameterValues) = Payload(E)
                  /\ decodeResult[1] = decodeWorkerManifest(E)
        /\ decodeResult[1].kind = "undefined" =>
              \/ ChunkCountRead.value = 0
              \/ TrimParam(StoredChecksum) = <<>>

(* a decode of a real mixture: values of both encodings are read, and it fails *)
C3_Witness ==
    /\ MixtureDecoded
    /\ Len(manifest.workers) > 0
    /\ \E key \in ChunksRead : parameterValues[key] # EncodedValues[key]
    /\ \E key \in ChunksRead : parameterValues[key] # UpdateValues[key]
    /\ parameterValues[WORKERS_SHA256_PARAM] = UpdateValues[WORKERS_SHA256_PARAM]
    /\ decodeResult[1] = ChecksumError


(***************************************************************************)
(* Router (worker/route.ts)                                                *)
(*                                                                         *)
(* A context value is None (undefined) or Some(string); the empty string   *)
(* is Some(<<>>).  JavaScript's !value is true of both undefined and "".   *)
(***************************************************************************)

Falsy(o) == o = None \/ o[1] = <<>>

matchesOptionalFilter_EmptyListMatchesNothing(filters, value) ==
    IF filters = None THEN TRUE
    ELSE IF Falsy(value) THEN FALSE
    ELSE \E k \in 1..Len(filters[1]) : filters[1][k] = value[1]

matchesOptionalFilter(filters, value) ==
    IF filters = None \/ Len(filters[1]) = 0 THEN TRUE
    ELSE IF Falsy(value) THEN FALSE
    ELSE \E k \in 1..Len(filters[1]) : filters[1][k] = value[1]

(* mutant: a context without an action passes every actions list *)
matchesAction_PassesNoAction(actions, action) ==
    IF Falsy(action) THEN TRUE
    ELSE \E k \in 1..Len(actions) : actions[k] = action[1]

matchesAction(actions, action) ==
    IF Falsy(action) THEN FALSE
    ELSE \E k \in 1..Len(actions) : actions[k] = action[1]

matchesTrigger(trigger, ctx) ==
    IF trigger.provider # ctx.provider THEN FALSE
    ELSE IF trigger.event # ctx.event THEN FALSE
    ELSE IF trigger.actions # None /\ ~matchesAction(trigger.actions[1], ctx.action) THEN FALSE
    ELSE IF trigger.if = None THEN TRUE
    ELSE IF ~matchesOptionalFilter(trigger.if[1].repository, ctx.repository) THEN FALSE
    ELSE IF ~matchesOptionalFilter(trigger.if[1].baseBranches, ctx.baseBranch) THEN FALSE
    ELSE IF ~matchesOptionalFilter(trigger.if[1].headBranches, ctx.headBranch) THEN FALSE
    ELSE IF /\ trigger.if[1].draft # None
            /\ ctx.draft # None
            /\ trigger.if[1].draft # ctx.draft THEN FALSE
    ELSE TRUE

matchesWorker(worker, ctx) ==
    \E k \in 1..Len(worker.triggers) : matchesTrigger(worker.triggers[k], ctx)

routeWorkers_KeepsDisabled(m, ctx) ==
    SelectSeq(m.workers, LAMBDA worker : matchesWorker(worker, ctx))

(* the matched workers are pushed in the order of manifest.workers *)
routeWorkers(m, ctx) ==
    SelectSeq(m.workers,
              LAMBDA worker : worker.metadata.enabled # Some(FALSE) /\ matchesWorker(worker, ctx))

(***************************************************************************)
(* Inputs of the router: parsed worker definitions and event contexts      *)
(***************************************************************************)

MaxRouteWorkers == 3

(* enabled, filtered on repository and draft *)
RouteWorkerA ==
    [WorkerLint EXCEPT !.metadata.id = <<"a">>, !.metadata.enabled = Some(TRUE)]

(* enabled, with a repository list that is present and empty *)
RouteWorkerB ==
    [WorkerLint EXCEPT !.metadata.id = <<"b">>, !.metadata.enabled = Some(TRUE),
                       !.triggers[1].if =
                           Some([NoFilter EXCEPT !.repository = Some(<<>>),
                                                 !.baseBranches = Some(<< <<"main">> >>),
                                                 !.headBranches = Some(<< <<"feat">>, <<"fix">> >>)])]

RouteWorkerPool == {WorkerReview, WorkerLint, WorkerFix, RouteWorkerA, RouteWorkerB}

RouteManifests == {[workers |-> ws] : ws \in SeqsUpTo(RouteWorkerPool, MaxRouteWorkers)}

Contexts ==
    [provider : {<<"github">>},
     event : {<<"pull_request">>, <<"issues">>},
     action : {None, Some(<<"opened">>), Some(<<"closed">>)},
     repository : {None, Some(<<>>), Some(<<"acme/api">>), Some(<<"acme/web">>)},
     baseBranch : {None, Some(<<"main">>)},
     headBranch : {None, Some(<<"feat">>)},
     draft : {None, Some(TRUE), Some(FALSE)}]

InitRoute ==
    /\ routeManifest \in RouteManifests
    /\ context \in Contexts
    /\ matched = None
    /\ CodecIdle
    /\ MintIdle
    /\ HandlerIdle
    /\ DeployIdle
    /\ ProvisionIdle
    /\ SubscriptionIdle
    /\ EnvironmentIdle
    /\ OverlapIdle
    /\ ScopeIdle

(* buildTaskEnvironments hands the manifest and the event's context to the router *)
Route ==
    /\ matched = None
    /\ matched' = Some(routeWorkers(routeManifest, context))
    /\ UNCHANGED <<routeManifest, context>>
    /\ UNCHANGED nonRouteVars

NextRoute == Route

SpecRoute == InitRoute /\ [][NextRoute]_vars


(***************************************************************************)
(* Properties of the router                                                *)
(***************************************************************************)

Routed == matched # None

(* code-unit order of the units worker ids are written with *)
UnitRank(u) ==
    CASE u = "-" -> 0 [] u = "7" -> 1 [] u = "A" -> 2 [] u = "a" -> 3 [] u = "b" -> 4
      [] u = "c" -> 5 [] u = "fix" -> 6 [] u = "lint" -> 7 [] u = "review" -> 8

(* x sorts strictly before y *)
IdBefore(x, y) ==
    \/ Len(x) < Len(y) /\ x = SubSeq(y, 1, Len(x))
    \/ \E k \in 1..Len(x) :
          /\ k <= Len(y)
          /\ SubSeq(x, 1, k - 1) = SubSeq(y, 1, k - 1)
          /\ UnitRank(x[k]) < UnitRank(y[k])

SortedById(ws) ==
    \A k \in 1..(Len(ws) - 1) : ~IdBefore(ws[k + 1].metadata.id, ws[k].metadata.id)

Reorderings(m) ==
    {[workers |-> [k \in 1..Len(m.workers) |-> m.workers[f[k]]]] :
        f \in {g \in [1..Len(m.workers) -> 1..Len(m.workers)] :
                  \A a, b \in 1..Len(m.workers) : a # b => g[a] # g[b]}}

(* C5: the result of routeWorkers is sorted ascending by worker id, and it *)
(* is the same sequence for every reordering of the manifest's workers     *)
C5_SortedAndOrderIndependent ==
    Routed =>
        /\ SortedById(matched[1])
        /\ \A m \in Reorderings(routeManifest) : routeWorkers(m, context) = matched[1]

(* C6: no worker whose metadata.enabled is false is in the result of       *)
(* routeWorkers, whether or not one of its triggers matches the context    *)
C6_NoDisabledWorkerRouted ==
    Routed => \A k \in 1..Len(matched[1]) : matched[1][k].metadata.enabled # Some(FALSE)

(* a disabled worker with a matching trigger was routed over, next to a    *)
(* worker that was matched                                                 *)
C6_Witness ==
    /\ Routed
    /\ Len(matched[1]) > 0
    /\ \E k \in 1..Len(routeManifest.workers) :
          /\ routeManifest.workers[k].metadata.enabled = Some(FALSE)
          /\ matchesWorker(routeManifest.workers[k], context)

IsMember(list, value) == \E k \in 1..Len(list) : list[k] = value

(* the filter semantics as claimed: only an absent field matches anything *)
FilterSatisfiedIfPresentMember(filters, value) ==
    filters = None \/ (value # None /\ IsMember(filters[1], value[1]))

(* an empty list matches anything too *)
FilterSatisfied(filters, value) ==
    \/ filters = None
    \/ Len(filters[1]) = 0
    \/ value # None /\ IsMember(filters[1], value[1])

(* the filter lists the router meets in this state, each with its context value *)
FiltersMet ==
    UNION {UNION {IF routeManifest.workers[k].triggers[j].if = None THEN {}
                  ELSE {<<routeManifest.workers[k].triggers[j].if[1].repository, context.repository>>,
                        <<routeManifest.workers[k].triggers[j].if[1].baseBranches, context.baseBranch>>,
                        <<routeManifest.workers[k].triggers[j].if[1].headBranches, context.headBranch>>} :
                  j \in 1..Len(routeManifest.workers[k].triggers)} :
           k \in 1..Len(routeManifest.workers)}

(* what a trigger needs besides its filter lists *)
TriggerAddressed(trigger, ctx) ==
    /\ trigger.provider = ctx.provider
    /\ trigger.event = ctx.event
    /\ trigger.actions = None \/ (ctx.action # None /\ IsMember(trigger.actions[1], ctx.action[1]))
    /\ trigger.if = None \/ trigger.if[1].draft = None \/ ctx.draft = None
          \/ trigger.if[1].draft = ctx.draft

ExpectedMatch(worker, ctx) ==
    /\ worker.metadata.enabled # Some(FALSE)
    /\ \E j \in 1..Len(worker.triggers) :
          /\ TriggerAddressed(worker.triggers[j], ctx)
          /\ worker.triggers[j].if = None
                \/ /\ FilterSatisfied(worker.triggers[j].if[1].repository, ctx.repository)
                   /\ FilterSatisfied(worker.triggers[j].if[1].baseBranches, ctx.baseBranch)
                   /\ FilterSatisfied(worker.triggers[j].if[1].headBranches, ctx.headBranch)

(* C7 as stated: an absent filter matches any context value, and a present *)
(* list of any length, the empty list too, matches only a present context  *)
(* value that is a member of the list                                      *)
C7_PresentListRequiresMembership ==
    Routed => \A pair \in FiltersMet :
                  matchesOptionalFilter(pair[1], pair[2])
                      <=> FilterSatisfiedIfPresentMember(pair[1], pair[2])

(* C7, amended: an absent filter and an empty list match any context       *)
(* value; a non-empty list matches only a present context value that is a  *)
(* member of the list; and the workers routed are the enabled workers with *)
(* a trigger whose three filters are satisfied in that sense               *)
C7_NonEmptyListRequiresMembership ==
    Routed =>
        /\ \A pair \in FiltersMet :
              matchesOptionalFilter(pair[1], pair[2]) <=> FilterSatisfied(pair[1], pair[2])
        /\ matched[1] = SelectSeq(routeManifest.workers,
                                  LAMBDA worker : ExpectedMatch(worker, context))

(* a trigger addressed by the event, whose repository list does not hold   *)
(* the event's repository, kept its worker out of the result               *)
C7_Witness ==
    /\ Routed
    /\ \E k \in 1..Len(routeManifest.workers) :
          /\ routeManifest.workers[k].metadata.enabled = Some(TRUE)
          /\ Len(routeManifest.workers[k].triggers) = 1
          /\ TriggerAddressed(routeManifest.workers[k].triggers[1], context)
          /\ routeManifest.workers[k].triggers[1].if # None
          /\ routeManifest.workers[k].triggers[1].if[1].repository # None
          /\ Len(routeManifest.workers[k].triggers[1].if[1].repository[1]) > 0
          /\ context.repository # None
          /\ context.repository[1] # <<>>
          /\ ~IsMember(routeManifest.workers[k].triggers[1].if[1].repository[1], context.repository[1])
          /\ ~IsMember(matched[1], routeManifest.workers[k])


(***************************************************************************)
(* Credential runtime (github-app-runtime.ts)                              *)
(*                                                                         *)
(* Times are in ticks.  The runtime is created with the two configuration  *)
(* values below; the source's defaults are 60 s and 24 h.                  *)
(***************************************************************************)

tokenRefreshBufferMs == 2
privateKeyCacheTtlMs == 3

appId == <<"123">>

(* cachedToken && cachedToken.expiresAt.getTime() - now > tokenRefreshBufferMs *)
TokenFresh_UntilExpiry(cachedToken, nowMs) ==
    cachedToken # None /\ cachedToken[1].expiresAt - nowMs > 0

(* mutant: the token still counts as fresh when the buffer is all that is left *)
TokenFresh_AtBoundary(cachedToken, nowMs) ==
    cachedToken # None /\ cachedToken[1].expiresAt - nowMs >= tokenRefreshBufferMs

TokenFresh(cachedToken, nowMs) ==
    cachedToken # None /\ cachedToken[1].expiresAt - nowMs > tokenRefreshBufferMs

(* cachedPrivateKey && nowMs - cachedPrivateKey.loadedAtMs < privateKeyCacheTtlMs *)
PrivateKeyFresh_Forever(cached, nowMs) ==
    cached # None

PrivateKeyFresh(cached, nowMs) ==
    cached # None /\ nowMs - cached[1].loadedAtMs < privateKeyCacheTtlMs

buildAppJwt(id, privateKeyPem) == <<"jwt", id, privateKeyPem>>

(* readPrivateKeyPemCached without the `if (!value)` test *)
readPrivateKeyPemCached_KeepsEmpty(cached, nowMs, read) ==
    IF PrivateKeyFresh(cached, nowMs)
    THEN [ok |-> TRUE, value |-> cached[1].value, cachedPrivateKey |-> cached, reads |-> 0]
    ELSE IF ~read.ok
    THEN [ok |-> FALSE, error |-> read.error, cachedPrivateKey |-> cached, reads |-> 1]
    ELSE [ok |-> TRUE, value |-> TrimText(read.value),
          cachedPrivateKey |-> Some([value |-> TrimText(read.value), loadedAtMs |-> nowMs]),
          reads |-> 1]

(* read is the outcome of deps.readPrivateKeyPem(), looked at only on a miss *)
readPrivateKeyPemCached(cached, nowMs, read) ==
    IF PrivateKeyFresh(cached, nowMs)
    THEN [ok |-> TRUE, value |-> cached[1].value, cachedPrivateKey |-> cached, reads |-> 0]
    ELSE IF ~read.ok
    THEN [ok |-> FALSE, error |-> read.error, cachedPrivateKey |-> cached, reads |-> 1]
    ELSE With(TrimText(read.value),
              LAMBDA value :
                 IF value = <<>>
                 THEN [ok |-> FALSE, error |-> "ssm parameter empty",
                       cachedPrivateKey |-> cached, reads |-> 1]
                 ELSE [ok |-> TRUE, value |-> value,
                       cachedPrivateKey |-> Some([value |-> value, loadedAtMs |-> nowMs]),
                       reads |-> 1])

(* mutant: the token is stored under every id the Map holds *)
StoreToken_EveryId(cache, installationId, token) ==
    [id \in DOMAIN cache |-> Some(token)]

(* installationTokenCache.set(installationId, token) *)
StoreToken(cache, installationId, token) ==
    [cache EXCEPT ![installationId] = Some(token)]

(* mutant: a refused exchange drops the cached token of the id and the key *)
(* the call loaded                                                          *)
mintInstallationToken_ForgetsOnFailure(cache, cached, installationId, nowMs, read, exchange) ==
    IF ~Number_isInteger(installationId) \/ AtMostZero(installationId)
    THEN [result |-> Err("installation id must be positive integer"),
          installationTokenCache |-> cache, cachedPrivateKey |-> cached,
          reads |-> 0, exchanges |-> 0, appJwt |-> None]
    ELSE IF TokenFresh(cache[installationId], nowMs)
    THEN [result |-> Ok(cache[installationId][1].token),
          installationTokenCache |-> cache, cachedPrivateKey |-> cached,
          reads |-> 0, exchanges |-> 0, appJwt |-> None]
    ELSE With(readPrivateKeyPemCached(cached, nowMs, read),
              LAMBDA privateKeyPem :
                 IF ~privateKeyPem.ok
                 THEN [result |-> Err(privateKeyPem.error),
                       installationTokenCache |-> cache,
                       cachedPrivateKey |-> privateKeyPem.cachedPrivateKey,
                       reads |-> privateKeyPem.reads, exchanges |-> 0, appJwt |-> None]
                 ELSE IF ~exchange.ok
                 THEN [result |-> Err(exchange.error),
                       installationTokenCache |-> [cache EXCEPT ![installationId] = None],
                       cachedPrivateKey |-> cached,
                       reads |-> privateKeyPem.reads, exchanges |-> 1,
                       appJwt |-> Some(buildAppJwt(appId, privateKeyPem.value))]
                 ELSE [result |-> Ok(exchange.value.token),
                       installationTokenCache |->
                           [cache EXCEPT ![installationId] = Some(exchange.value)],
                       cachedPrivateKey |-> privateKeyPem.cachedPrivateKey,
                       reads |-> privateKeyPem.reads, exchanges |-> 1,
                       appJwt |-> Some(buildAppJwt(appId, privateKeyPem.value))])

(* One call: its return value, the two caches after it, how often it      *)
(* called deps.readPrivateKeyPem and deps.createInstallationAccessToken,   *)
(* and the JWT it built.  exchange is the outcome of the upstream call.    *)
mintInstallationToken(cache, cached, installationId, nowMs, read, exchange) ==
    IF ~Number_isInteger(installationId) \/ AtMostZero(installationId)
    THEN [result |-> Err("installation id must be positive integer"),
          installationTokenCache |-> cache, cachedPrivateKey |-> cached,
          reads |-> 0, exchanges |-> 0, appJwt |-> None]
    ELSE IF TokenFresh(cache[installationId], nowMs)
    THEN [result |-> Ok(cache[installationId][1].token),
          installationTokenCache |-> cache, cachedPrivateKey |-> cached,
          reads |-> 0, exchanges |-> 0, appJwt |-> None]
    ELSE With(readPrivateKeyPemCached(cached, nowMs, read),
              LAMBDA privateKeyPem :
                 IF ~privateKeyPem.ok
                 THEN [result |-> Err(privateKeyPem.error),
                       installationTokenCache |-> cache,
                       cachedPrivateKey |-> privateKeyPem.cachedPrivateKey,
                       reads |-> privateKeyPem.reads, exchanges |-> 0, appJwt |-> None]
                 ELSE IF ~exchange.ok
                 THEN [result |-> Err(exchange.error),
                       installationTokenCache |-> cache,
                       cachedPrivateKey |-> privateKeyPem.cachedPrivateKey,
                       reads |-> privateKeyPem.reads, exchanges |-> 1,
                       appJwt |-> Some(buildAppJwt(appId, privateKeyPem.value))]
                 ELSE [result |-> Ok(exchange.value.token),
                       installationTokenCache |->
                           StoreToken(cache, installationId, exchange.value),
                       cachedPrivateKey |-> privateKeyPem.cachedPrivateKey,
                       reads |-> privateKeyPem.reads, exchanges |-> 1,
                       appJwt |-> Some(buildAppJwt(appId, privateKeyPem.value))])

(***************************************************************************)
(* Runtime operations                                                      *)
(***************************************************************************)

MaxNow == 5
MaxTokenMints == 2
MaxPrivateKeyReads == 2

KeyValues == {<<>>, <<" ">>, <<"pem-a">>, <<"pem-b", " ">>}
TokenLifetimes == {1, 4}

InitMint ==
    /\ now = 0
    /\ keyValue \in KeyValues
    /\ RuntimeCreated
    /\ CodecIdle
    /\ RouteIdle
    /\ HandlerIdle
    /\ DeployIdle
    /\ ProvisionIdle
    /\ SubscriptionIdle
    /\ EnvironmentIdle
    /\ OverlapIdle
    /\ ScopeIdle

(* what the secret store answers to a read *)
ReadOutcomes == {Ok(keyValue), Err("ssm unavailable")}

(* what upstream answers to an exchange for this installation *)
ExchangeOutcomes(installationId) ==
    {Ok([token |-> <<"token", installationId, tokenMints + 1>>, expiresAt |-> now + lifetime]) :
        lifetime \in TokenLifetimes}
        \cup {Err("installation token request failed")}

(* the store and upstream answer when they are asked: of a call that does *)
(* not ask, the one answer recorded is the failure                         *)
Unasked(outcomes) == CHOOSE outcome \in outcomes : ~outcome.ok

(* one awaited call of runtime.mintInstallationToken *)
Mint ==
    /\ tokenMints < MaxTokenMints
    /\ privateKeyReads < MaxPrivateKeyReads
    /\ \E installationId \in RequestedIds, read \in ReadOutcomes :
          \E exchange \in ExchangeOutcomes(installationId) :
             \E call \in {mintInstallationToken(installationTokenCache, cachedPrivateKey,
                                                installationId, now, read, exchange)} :
                /\ call.reads = 0 => read = Unasked(ReadOutcomes)
                /\ call.exchanges = 0 => exchange = Unasked(ExchangeOutcomes(installationId))
                /\ installationTokenCache' = call.installationTokenCache
                /\ cachedPrivateKey' = call.cachedPrivateKey
                /\ privateKeyReads' = privateKeyReads + call.reads
                /\ tokenMints' = tokenMints + call.exchanges
                /\ lastMint' = Some([installationId |-> installationId,
                                     nowMs |-> now,
                                     cachedToken |-> installationTokenCache[installationId],
                                     installationTokenCache |-> installationTokenCache,
                                     cachedPrivateKey |-> cachedPrivateKey,
                                     read |-> read,
                                     result |-> call.result,
                                     reads |-> call.reads,
                                     exchanges |-> call.exchanges,
                                     appJwt |-> call.appJwt])
    /\ UNCHANGED <<now, keyValue>>
    /\ UNCHANGED nonMintVars

(* time passes between calls *)
Tick ==
    /\ now < MaxNow
    /\ now' = now + 1
    /\ UNCHANGED <<keyValue, installationTokenCache, cachedPrivateKey, privateKeyReads,
                   tokenMints, lastMint>>
    /\ UNCHANGED nonMintVars

(* the signing key in the secret store is replaced *)
RotateKey ==
    /\ \E value \in KeyValues :
          /\ value # keyValue
          /\ keyValue' = value
    /\ UNCHANGED <<now, installationTokenCache, cachedPrivateKey, privateKeyReads,
                   tokenMints, lastMint>>
    /\ UNCHANGED nonMintVars

NextMint == Mint \/ Tick \/ RotateKey

SpecMint == InitMint /\ [][NextMint]_vars


(***************************************************************************)
(* Properties of the credential runtime                                    *)
(***************************************************************************)

Minted == lastMint # None

(* the latest call was for a valid installation id *)
ValidCall == Minted /\ lastMint[1].installationId \in InstallationIds

(* at the call, a token was cached for the id and now < expiresAt - refreshBuffer *)
InsideWindow ==
    /\ ValidCall
    /\ lastMint[1].cachedToken # None
    /\ lastMint[1].nowMs < lastMint[1].cachedToken[1].expiresAt - tokenRefreshBufferMs

(* at the call, a token was cached for the id and now >= expiresAt - refreshBuffer *)
PastWindow ==
    /\ ValidCall
    /\ lastMint[1].cachedToken # None
    /\ lastMint[1].nowMs >= lastMint[1].cachedToken[1].expiresAt - tokenRefreshBufferMs

(* at the call, a signing key was cached and now - loadedAt < keyTtl *)
KeyWithinTtl ==
    /\ Minted
    /\ lastMint[1].cachedPrivateKey # None
    /\ lastMint[1].nowMs - lastMint[1].cachedPrivateKey[1].loadedAtMs < privateKeyCacheTtlMs

(* at the call, the secret store answered with a key that is not blank *)
StoreHadKey ==
    /\ Minted
    /\ lastMint[1].read.ok
    /\ \E k \in 1..Len(lastMint[1].read.value) : lastMint[1].read.value[k] # " "

ReturnedCachedToken ==
    /\ lastMint[1].result = Ok(lastMint[1].cachedToken[1].token)
    /\ lastMint[1].reads = 0
    /\ lastMint[1].exchanges = 0

(* C8 as stated: a call inside the window returns the cached token with    *)
(* no secret-store read and no exchange, and a call once                   *)
(* now >= expiresAt - refreshBuffer makes exactly one exchange             *)
C8_OneExchangePastWindow ==
    /\ InsideWindow => ReturnedCachedToken
    /\ PastWindow => lastMint[1].exchanges = 1

(* C8, amended: past the window the call makes exactly one exchange when   *)
(* the signing key is to be had (cached within its TTL, or read non-blank  *)
(* from the store), and otherwise fails without an exchange                *)
C8_OneExchangePastWindowGivenKey ==
    /\ InsideWindow => ReturnedCachedToken
    /\ PastWindow /\ (KeyWithinTtl \/ StoreHadKey) => lastMint[1].exchanges = 1
    /\ PastWindow /\ ~(KeyWithinTtl \/ StoreHadKey) =>
          /\ lastMint[1].exchanges = 0
          /\ ~lastMint[1].result.ok
          /\ installationTokenCache[lastMint[1].installationId] = lastMint[1].cachedToken

(* the second exchange for an installation: its cached token had reached   *)
(* the refresh window, and the call returned a new token, with the one     *)
(* key read the first exchange made                                        *)
C8_Witness ==
    /\ PastWindow
    /\ lastMint[1].nowMs < lastMint[1].cachedToken[1].expiresAt
    /\ lastMint[1].exchanges = 1
    /\ lastMint[1].result.ok
    /\ lastMint[1].result.value # lastMint[1].cachedToken[1].token
    /\ tokenMints = 2
    /\ privateKeyReads = 1

TokenMiss == ValidCall /\ ~InsideWindow

(* C9: the store is read only by a call that misses the token cache and    *)
(* finds no cached key or one with now - loadedAt >= keyTtl; a miss within *)
(* the TTL builds the JWT from the cached key without a read; a miss after *)
(* it reads the store once, and a JWT it builds is built from the key just *)
(* read, which is cached with the call's time                              *)
C9_KeyReadOnlyWhenStale ==
    Minted =>
        /\ lastMint[1].reads = 1 => TokenMiss /\ ~KeyWithinTtl
        /\ TokenMiss /\ KeyWithinTtl =>
              /\ lastMint[1].reads = 0
              /\ lastMint[1].appJwt =
                    Some(buildAppJwt(appId, lastMint[1].cachedPrivateKey[1].value))
        /\ TokenMiss /\ ~KeyWithinTtl =>
              /\ lastMint[1].reads = 1
              /\ IF StoreHadKey
                 THEN /\ lastMint[1].appJwt =
                            Some(buildAppJwt(appId, TrimText(lastMint[1].read.value)))
                      /\ cachedPrivateKey = Some([value |-> TrimText(lastMint[1].read.value),
                                                  loadedAtMs |-> lastMint[1].nowMs])
                 ELSE /\ lastMint[1].appJwt = None
                      /\ cachedPrivateKey = lastMint[1].cachedPrivateKey

(* a key cached for a full TTL was read again, the store held another key, *)
(* and the JWT was built from that one                                     *)
C9_Witness ==
    /\ TokenMiss
    /\ lastMint[1].cachedPrivateKey # None
    /\ ~KeyWithinTtl
    /\ StoreHadKey
    /\ TrimText(lastMint[1].read.value) # lastMint[1].cachedPrivateKey[1].value
    /\ lastMint[1].appJwt = Some(buildAppJwt(appId, TrimText(lastMint[1].read.value)))
    /\ privateKeyReads = 2

(* the call read the store, and the store answered with nothing but blanks *)
EmptyKeyLoad ==
    /\ Minted
    /\ lastMint[1].reads = 1
    /\ lastMint[1].read.ok
    /\ \A k \in 1..Len(lastMint[1].read.value) : lastMint[1].read.value[k] = " "

EmptyKeyLoadFails ==
    EmptyKeyLoad =>
        /\ lastMint[1].result = Err("ssm parameter empty")
        /\ cachedPrivateKey = lastMint[1].cachedPrivateKey
        /\ cachedPrivateKey # None => cachedPrivateKey[1].value # <<>>
        /\ lastMint[1].appJwt = None
        /\ lastMint[1].exchanges = 0
        /\ installationTokenCache = lastMint[1].installationTokenCache

(* the call after an empty load, when it misses the token cache, reads the *)
(* store                                                                   *)
ReadsAgainAfterEmptyLoad ==
    EmptyKeyLoad /\ lastMint' # lastMint /\ TokenMiss' =>
        /\ lastMint'[1].reads = 1
        /\ privateKeyReads' = privateKeyReads + 1

(* C21: when the secret store answers a key load with an empty or          *)
(* whitespace-only value, the call fails with the empty-secret error, the  *)
(* signing-key cache keeps what it held (never the empty value), no JWT is *)
(* built, no exchange is made and the token cache is unchanged; and the    *)
(* next call that needs the key reads the store again                      *)
C21_EmptyKeyNotCached ==
    []EmptyKeyLoadFails /\ [][ReadsAgainAfterEmptyLoad]_vars

(* a key had been cached for a full TTL, the store then held only blanks,  *)
(* and the second read of the store failed                                 *)
C21_Witness ==
    /\ EmptyKeyLoad
    /\ lastMint[1].cachedPrivateKey # None
    /\ privateKeyReads = 2
    /\ \E id \in InstallationIds : installationTokenCache[id] # None

(* zero, a negative integer, a fraction and NaN *)
NotPositiveIntegers == {JsInteger(0), JsInteger(-1), JsNumber(3, 2), NaN}

(* C20: a call with an installation id that is not a positive integer      *)
(* (zero, negative, fractional, NaN) fails with the invalid-input error,   *)
(* reads the secret store not once, makes no exchange, and leaves the      *)
(* token cache and the signing-key cache as they were before the call      *)
C20_InvalidIdTouchesNothing ==
    Minted /\ lastMint[1].installationId \in NotPositiveIntegers =>
        /\ lastMint[1].result = Err("installation id must be positive integer")
        /\ lastMint[1].reads = 0
        /\ lastMint[1].exchanges = 0
        /\ lastMint[1].appJwt = None
        /\ installationTokenCache = lastMint[1].installationTokenCache
        /\ cachedPrivateKey = lastMint[1].cachedPrivateKey

(* NaN was passed to a runtime holding a token and a signing key, with a   *)
(* key in the store, and the call failed                                   *)
C20_Witness ==
    /\ Minted
    /\ lastMint[1].installationId = NaN
    /\ lastMint[1].cachedPrivateKey # None
    /\ \E id \in InstallationIds : lastMint[1].installationTokenCache[id] # None
    /\ TrimText(keyValue) # <<>>
    /\ ~lastMint[1].result.ok
    /\ tokenMints = 1
    /\ privateKeyReads = 1


(***************************************************************************)
(* Function handler (command/aws/lambda/handler.ts): pure parts            *)
(*                                                                         *)
(* A record body is [format, rawBodyB64, headers]: format "json" is the    *)
(* JSON text of a queue envelope with these two members, format "text" is  *)
(* a body that is neither that nor the legacy {rawBodyB64=..., headers=..} *)
(* form.  headers is None or Some(sequence of <<key, None | Some(value)>>).*)
(***************************************************************************)

Truthy(o) == ~Falsy(o)
OrElse(o, default) == IF o = None THEN default ELSE o[1]
OptTrim(o) == IF o = None THEN None ELSE Some(TrimText(o[1]))
(* o?.field *)
Chain(o, field) == IF o = None THEN None ELSE o[1][field]

RequiredHeaders == <<"x-hub-signature-256", "x-github-event", "x-github-delivery">>

toLowerCase(key) ==
    CASE key = "X-Hub-Signature-256" -> "x-hub-signature-256"
      [] key = "X-GitHub-Event" -> "x-github-event"
      [] key = "X-GitHub-Delivery" -> "x-github-delivery"
      [] OTHER -> key

(* the module constants read from process.env *)
webhookSecret(env) == env.WEBHOOK_SECRET
workersStackName(env) == OrElse(OptTrim(env.WORKERS_STACK_NAME), <<>>)
workersSha256(env) == IF env.WORKERS_SHA256 = None THEN <<>> ELSE TrimParam(env.WORKERS_SHA256[1])
workerIdFilter(env) == OrElse(OptTrim(env.SKIPPER_WORKER_ID), <<>>)

parseLegacyEnvelope(body) == None

parseEnvelope(body) ==
    IF body.format = "json"
    THEN Ok([rawBodyB64 |-> body.rawBodyB64, headers |-> body.headers])
    ELSE With(parseLegacyEnvelope(body),
              LAMBDA parsed : IF parsed # None THEN Ok(parsed[1])
                              ELSE Err("invalid queue envelope"))

(* base64 text is the source text, unit by unit, in units <<"b64", unit>>;  *)
(* Buffer.from(value, "base64") passes over what is not base64             *)
IsBase64Unit(u) == u[1] = "b64"

decodeBase64(value) ==
    With(SelectSeq(value, IsBase64Unit),
         LAMBDA units : [k \in 1..Len(units) |-> units[k][2]])

normalizeHeaders(headers) ==
    [name \in {RequiredHeaders[k] : k \in 1..Len(RequiredHeaders)} |->
        With({k \in 1..Len(OrElse(headers, <<>>)) : toLowerCase(headers[1][k][1]) = name},
             LAMBDA at : IF at = {} THEN None ELSE headers[1][SetMax(at)][2])]

listMissingWebhookHeaders(headers) ==
    SelectSeq(RequiredHeaders, LAMBDA name : Falsy(headers[name]))

readWebhookMeta(headers) ==
    IF Len(listMissingWebhookHeaders(headers)) > 0 THEN None
    ELSE Some([signature |-> headers["x-hub-signature-256"][1],
               githubEvent |-> headers["x-github-event"][1],
               deliveryId |-> headers["x-github-delivery"][1]])

(* HMAC-SHA256 of the body under the secret, as the header carries it:     *)
(* one unit that determines both                                           *)
Sign(secret, rawBody) == << <<"sha256=", secret, rawBody>> >>

verifyWebhookBody_AcceptsAny(secret, rawBody, signature) == Ok(TRUE)

(* webhooks.verify(rawBody, signature), webhooks made with the secret *)
verifyWebhookBody(secret, rawBody, signature) ==
    IF signature = Sign(secret, rawBody) THEN Ok(TRUE) ELSE Err("invalid webhook signature")

(***************************************************************************)
(* GitHub payloads and their JSON text                                     *)
(***************************************************************************)

NoPayload ==
    [action |-> None, repository |-> None, issue |-> None, pull_request |-> None,
     prompt |-> None, number |-> None, installation |-> None]

PayloadIssueOpened ==
    [NoPayload EXCEPT !.action = Some(<<"opened">>),
                      !.repository = Some([full_name |-> Some(<<"acme/repo">>), clone_url |-> None]),
                      !.issue = Some([number |-> Some(7), html_url |-> None]),
                      !.installation = Some([id |-> Some(1)])]

PayloadPullOpened ==
    [NoPayload EXCEPT !.action = Some(<<"opened">>),
                      !.installation = Some([id |-> Some(2)]),
                      !.repository = Some([full_name |-> Some(<<"acme/api">>),
                                           clone_url |-> Some(<<"https://git/acme/api">>)]),
                      !.pull_request =
                          Some([number |-> Some(3), html_url |-> Some(<<"https://pr/3">>),
                                draft |-> Some(FALSE),
                                base |-> Some([ref |-> Some(<<"main">>), sha |-> Some(<<"b0">>)]),
                                head |-> Some([ref |-> Some(<<"feat">>), sha |-> None])])]

(* a ping carries no repository *)
PayloadPing == NoPayload

Payloads == {PayloadIssueOpened, PayloadPullOpened, PayloadPing}

PayloadJson(payload) ==
    << <<"{">> >> \o OptionalMember("action", payload.action)
        \o OptionalMember("repository", payload.repository)
        \o OptionalMember("issue", payload.issue)
        \o OptionalMember("pull_request", payload.pull_request)
        \o OptionalMember("prompt", payload.prompt)
        \o OptionalMember("number", payload.number)
        \o OptionalMember("installation", payload.installation) \o << <<"}">> >>

PayloadJsonOf == [payload \in Payloads |-> PayloadJson(payload)]

(* JSON text of a value that is no object *)
JsonNull == << <<"null">> >>
(* text that is no JSON *)
JsonTruncated == << <<"{">> >>

(* parseJson(rawBody, isGitHubPayload, "github payload") *)
parseGitHubPayload(rawBody) ==
    With({payload \in Payloads : PayloadJsonOf[payload] = rawBody},
         LAMBDA found : IF found # {} THEN Ok(CHOOSE payload \in found : TRUE)
                        ELSE IF rawBody = JsonNull THEN Err("invalid github payload")
                        ELSE Err("invalid JSON for github payload"))


(***************************************************************************)
(* Manifest loading and task environments                                  *)
(***************************************************************************)

(* mutant: a stack that is not found is remembered as a stack without     *)
(* manifest                                                                *)
loadWorkersManifest_CachesFailedLoad(env, cached, stackParameters) ==
    IF workersStackName(env) = <<>> \/ workersSha256(env) = <<>>
    THEN [result |-> Ok(None), cachedWorkers |-> cached, describes |-> 0]
    ELSE IF cached # None /\ cached[1].sha256 = workersSha256(env)
    THEN [result |-> Ok(cached[1].manifest), cachedWorkers |-> cached, describes |-> 0]
    ELSE IF stackParameters = None
    THEN [result |-> Err("stack not found"),
          cachedWorkers |-> Some([sha256 |-> workersSha256(env), manifest |-> None]),
          describes |-> 1]
    ELSE With(decodeWorkerManifest(stackParameters[1]),
              LAMBDA decoded :
                 IF decoded.kind = "error"
                 THEN [result |-> Err(decoded.error), cachedWorkers |-> cached, describes |-> 1]
                 ELSE IF OrEmpty(TrimmedParam(stackParameters[1], WORKERS_SHA256_PARAM))
                            # workersSha256(env)
                 THEN [result |-> Err("worker manifest hash mismatch between lambda env and stack params"),
                       cachedWorkers |-> cached, describes |-> 1]
                 ELSE [result |-> Ok(decoded.manifest),
                       cachedWorkers |-> Some([sha256 |-> workersSha256(env),
                                               manifest |-> decoded.manifest]),
                       describes |-> 1])

(* stackParameters is what DescribeStacks finds: None when there is no     *)
(* stack.  describes tells whether DescribeStacks was sent.                *)
(* mutant: what the stack holds is taken without a look at its checksum *)
loadWorkersManifest_NoCompare(env, cached, stackParameters) ==
    IF workersStackName(env) = <<>> \/ workersSha256(env) = <<>>
    THEN [result |-> Ok(None), cachedWorkers |-> cached, describes |-> 0]
    ELSE IF cached # None /\ cached[1].sha256 = workersSha256(env)
    THEN [result |-> Ok(cached[1].manifest), cachedWorkers |-> cached, describes |-> 0]
    ELSE IF stackParameters = None
    THEN [result |-> Err("stack not found"), cachedWorkers |-> cached, describes |-> 1]
    ELSE With(decodeWorkerManifest(stackParameters[1]),
              LAMBDA decoded :
                 IF decoded.kind = "error"
                 THEN [result |-> Err(decoded.error), cachedWorkers |-> cached, describes |-> 1]
                 ELSE [result |-> Ok(decoded.manifest),
                       cachedWorkers |-> Some([sha256 |-> workersSha256(env),
                                               manifest |-> decoded.manifest]),
                       describes |-> 1])

loadWorkersManifest(env, cached, stackParameters) ==
    IF workersStackName(env) = <<>> \/ workersSha256(env) = <<>>
    THEN [result |-> Ok(None), cachedWorkers |-> cached, describes |-> 0]
    ELSE IF cached # None /\ cached[1].sha256 = workersSha256(env)
    THEN [result |-> Ok(cached[1].manifest), cachedWorkers |-> cached, describes |-> 0]
    ELSE IF stackParameters = None
    THEN [result |-> Err("stack not found"), cachedWorkers |-> cached, describes |-> 1]
    ELSE With(decodeWorkerManifest(stackParameters[1]),
              LAMBDA decoded :
                 IF decoded.kind = "error"
                 THEN [result |-> Err(decoded.error), cachedWorkers |-> cached, describes |-> 1]
                 ELSE IF OrEmpty(TrimmedParam(stackParameters[1], WORKERS_SHA256_PARAM))
                            # workersSha256(env)
                 THEN [result |-> Err("worker manifest hash mismatch between lambda env and stack params"),
                       cachedWorkers |-> cached, describes |-> 1]
                 ELSE [result |-> Ok(decoded.manifest),
                       cachedWorkers |-> Some([sha256 |-> workersSha256(env),
                                               manifest |-> decoded.manifest]),
                       describes |-> 1])

resolveRepositoryUrl(payload) ==
    With2(OptTrim(Chain(payload.repository, "clone_url")),
          OptTrim(Chain(payload.repository, "full_name")),
          LAMBDA cloneUrl, fullName :
             IF Truthy(cloneUrl) THEN cloneUrl
             ELSE IF Falsy(fullName) THEN None
             ELSE Some(<<"https://github.com/">> \o fullName[1] \o <<".git">>))

resolvePrompt(payload, env) ==
    With(OptTrim(payload.prompt),
         LAMBDA promptFromPayload :
            IF Truthy(promptFromPayload) THEN promptFromPayload ELSE OptTrim(env.PROMPT))

Digits == <<"0", "1", "2", "3", "4", "5", "6", "7", "8", "9">>

(* String(n) of a positive integer *)
RECURSIVE DecimalText(_)
DecimalText(n) ==
    IF n < 10 THEN <<Digits[n + 1]>> ELSE DecimalText(n \div 10) \o <<Digits[(n % 10) + 1]>>

Env(name, value) == << [name |-> name, value |-> value] >>

(* pushOptionalEnv, as the entries it adds *)
pushOptionalEnv(name, value) == IF Truthy(value) THEN Env(name, value[1]) ELSE <<>>

(* mutant: an issue without a page address gives no issue context *)
readIssueContext_UrlRequired(payload) ==
    IF payload.issue = None \/ payload.issue[1].html_url = None THEN None
    ELSE Some([number |-> DecimalText(payload.issue[1].number[1]),
               url |-> OptTrim(payload.issue[1].html_url)])

readIssueContext(payload) ==
    IF payload.issue = None THEN None
    ELSE IF payload.issue[1].number = None \/ payload.issue[1].number[1] <= 0 THEN None
    ELSE Some([number |-> DecimalText(payload.issue[1].number[1]),
               url |-> OptTrim(payload.issue[1].html_url)])

readPullRequestContext(payload) ==
    IF payload.pull_request = None THEN None
    ELSE With(IF payload.pull_request[1].number # None THEN payload.pull_request[1].number
              ELSE payload.number,
              LAMBDA pullRequestNumber :
                 IF pullRequestNumber = None \/ pullRequestNumber[1] <= 0 THEN None
                 ELSE Some([number |-> DecimalText(pullRequestNumber[1]),
                            url |-> OptTrim(payload.pull_request[1].html_url),
                            headSha |-> OptTrim(Chain(payload.pull_request[1].head, "sha")),
                            baseSha |-> OptTrim(Chain(payload.pull_request[1].base, "sha"))]))

BaseEnvironment(payload, webhookMeta, repositoryUrl) ==
    Env("GITHUB_EVENT", webhookMeta.githubEvent)
        \o Env("GITHUB_DELIVERY", webhookMeta.deliveryId)
        \o Env("GITHUB_REPO", OrElse(Chain(payload.repository, "full_name"), <<"unknown">>))
        \o Env("GITHUB_ACTION", OrElse(payload.action, <<"none">>))
        \o Env("REPOSITORY_URL", repositoryUrl)
        \o With(readIssueContext(payload),
                LAMBDA issueContext :
                   IF issueContext = None THEN <<>>
                   ELSE Env("GITHUB_ISSUE_NUMBER", issueContext[1].number)
                            \o pushOptionalEnv("GITHUB_ISSUE_URL", issueContext[1].url))
        \o With(readPullRequestContext(payload),
                LAMBDA pullRequestContext :
                   IF pullRequestContext = None THEN <<>>
                   ELSE Env("GITHUB_PR_NUMBER", pullRequestContext[1].number)
                            \o pushOptionalEnv("GITHUB_PR_URL", pullRequestContext[1].url)
                            \o pushOptionalEnv("GITHUB_PR_HEAD_SHA", pullRequestContext[1].headSha)
                            \o pushOptionalEnv("GITHUB_PR_BASE_SHA", pullRequestContext[1].baseSha))

filterWorkersById(workers, workerId) ==
    IF Len(workerId) = 0 THEN workers
    ELSE SelectSeq(workers, LAMBDA worker : worker.metadata.id = workerId)

buildLegacyTaskEnvironment(payload, baseEnvironment, env) ==
    With(resolvePrompt(payload, env),
         LAMBDA prompt :
            IF Falsy(prompt) THEN Err("missing prompt")
            ELSE Ok(baseEnvironment \o Env("PROMPT", prompt[1])
                        \o pushOptionalEnv("GITHUB_TOKEN", env.GITHUB_TOKEN)
                        \o pushOptionalEnv("ANTHROPIC_API_KEY", env.ANTHROPIC_API_KEY)))

(* mutant: the default of allowPush does not look at the mode *)
DefaultAllowPush_Always(mode) == TRUE

(* mode !== "comment-only" *)
DefaultAllowPush(mode) == mode # <<"comment-only">>

buildWorkerTaskEnvironment(baseEnvironment, worker, env) ==
    With(OrElse(worker.runtime.mode, <<"apply">>),
         LAMBDA mode :
            baseEnvironment
                \o Env("PROMPT", worker.runtime.prompt)
                \o Env("SKIPPER_WORKER_ID", worker.metadata.id)
                \o Env("SKIPPER_WORKER_TYPE", worker.metadata.type)
                \o Env("SKIPPER_WORKER_MODE", mode)
                \o Env("SKIPPER_ALLOW_PUSH",
                       IF OrElse(worker.runtime.allowPush, DefaultAllowPush(mode))
                       THEN <<"1">> ELSE <<"0">>)
                \o pushOptionalEnv("ECS_AGENT", worker.runtime.agent)
                \o With(OrElse(worker.runtime.env, <<>>),
                        LAMBDA entries :
                           Flatten([k \in 1..Len(entries) |->
                                       Env(entries[k][1], <<entries[k][2]>>)]))
                \o pushOptionalEnv("GITHUB_TOKEN", env.GITHUB_TOKEN)
                \o pushOptionalEnv("ANTHROPIC_API_KEY", env.ANTHROPIC_API_KEY))

RouteContextOf(payload, webhookMeta) ==
    [provider |-> <<"github">>,
     event |-> webhookMeta.githubEvent,
     action |-> payload.action,
     repository |-> Chain(payload.repository, "full_name"),
     baseBranch |-> Chain(Chain(payload.pull_request, "base"), "ref"),
     headBranch |-> Chain(Chain(payload.pull_request, "head"), "ref"),
     draft |-> Chain(payload.pull_request, "draft")]

(* workers is None (no manifest) or Some(manifest) *)
buildTaskEnvironments(payload, webhookMeta, workers, env) ==
    With(resolveRepositoryUrl(payload),
         LAMBDA repositoryUrl :
            IF repositoryUrl = None THEN Err("missing repository clone url")
            ELSE With(BaseEnvironment(payload, webhookMeta, repositoryUrl[1]),
                      LAMBDA baseEnvironment :
                         IF workers = None
                         THEN (IF Len(workerIdFilter(env)) > 0
                               THEN Err("worker-scoped lambda missing workers manifest")
                               ELSE With(buildLegacyTaskEnvironment(payload, baseEnvironment, env),
                                         LAMBDA legacy : IF legacy.ok THEN Ok(<<legacy.value>>)
                                                         ELSE legacy))
                         ELSE With(filterWorkersById(
                                       routeWorkers(workers[1],
                                                    RouteContextOf(payload, webhookMeta)),
                                       workerIdFilter(env)),
                                   LAMBDA matchedWorkers :
                                      Ok([k \in 1..Len(matchedWorkers) |->
                                             buildWorkerTaskEnvironment(baseEnvironment,
                                                                        matchedWorkers[k], env)]))))

(* response is what RunTask answered: [failures, tasks] counts, or None     *)
(* when the request itself was rejected                                    *)
assertRunTaskSuccess(failures, taskCount) ==
    IF failures > 0 THEN Err("ecs runTask failed")
    ELSE IF taskCount = 0 THEN Err("ecs runTask created no tasks")
    ELSE Ok(TRUE)

runTask(response) ==
    IF response = None THEN Err("ecs request rejected")
    ELSE assertRunTaskSuccess(response[1].failures, response[1].tasks)


(* handleRecord up to its first await: the locals it goes on with, a skip, *)
(* or the error it throws                                                  *)
receiveRecord(body) ==
    With(parseEnvelope(body),
         LAMBDA envelope :
            IF ~envelope.ok THEN [kind |-> "error", error |-> envelope.error, locals |-> None]
            ELSE With2(decodeBase64(OrElse(envelope.value.rawBodyB64, <<>>)),
                       readWebhookMeta(normalizeHeaders(envelope.value.headers)),
                       LAMBDA rawBody, webhookMeta :
                          With(parseGitHubPayload(rawBody),
                               LAMBDA payload :
                                  IF ~payload.ok
                                  THEN [kind |-> "error", error |-> payload.error, locals |-> None]
                                  ELSE IF webhookMeta = None
                                  THEN [kind |-> "skip", error |-> "", locals |-> None]
                                  ELSE [kind |-> "webhook", error |-> "",
                                        locals |-> Some([rawBody |-> rawBody,
                                                         payload |-> payload.value,
                                                         webhookMeta |-> webhookMeta[1],
                                                         environments |-> <<>>,
                                                         sent |-> 0])])))

(***************************************************************************)
(* Queue records, deployments and the handler's steps                      *)
(***************************************************************************)

MaxRecords == 2

toBase64(text) == [k \in 1..Len(text) |-> <<"b64", text[k]>>]

(* the envelope the webhook endpoint queues for a delivery *)
Delivery(rawBody, githubEvent, signature) ==
    [format |-> "json",
     rawBodyB64 |-> Some(toBase64(rawBody)),
     headers |-> Some(<< <<"X-Hub-Signature-256", signature>>,
                         <<"X-GitHub-Event", githubEvent>>,
                         <<"X-GitHub-Delivery", Some(<<"d-1">>)>> >>)]

RecordIssue ==
    Delivery(PayloadJson(PayloadIssueOpened), Some(<<"issues">>),
             Some(Sign(<<"shh">>, PayloadJson(PayloadIssueOpened))))

RecordPull ==
    Delivery(PayloadJson(PayloadPullOpened), Some(<<"pull_request">>),
             Some(Sign(<<"shh">>, PayloadJson(PayloadPullOpened))))

(* signed without knowledge of the secret *)
RecordForged ==
    Delivery(PayloadJson(PayloadIssueOpened), Some(<<"issues">>),
             Some(Sign(<<"guess">>, PayloadJson(PayloadIssueOpened))))

(* a signed delivery whose body was replaced *)
RecordTampered ==
    Delivery(PayloadJson(PayloadPullOpened), Some(<<"pull_request">>),
             Some(Sign(<<"shh">>, PayloadJson(PayloadIssueOpened))))

RecordNoEvent ==
    Delivery(PayloadJson(PayloadIssueOpened), None,
             Some(Sign(<<"guess">>, PayloadJson(PayloadIssueOpened))))

RecordBlankSignature == Delivery(PayloadJson(PayloadIssueOpened), Some(<<"issues">>), Some(<<>>))

RecordTruncated == Delivery(JsonTruncated, Some(<<"issues">>), Some(Sign(<<"shh">>, JsonTruncated)))

(* a delivery without event header whose body is no JSON *)
RecordNoEventTruncated == Delivery(JsonTruncated, None, Some(Sign(<<"shh">>, JsonTruncated)))

RecordPing ==
    Delivery(PayloadJson(PayloadPing), Some(<<"ping">>), Some(Sign(<<"shh">>, PayloadJson(PayloadPing))))

RecordText == [format |-> "text", rawBodyB64 |-> None, headers |-> None]

RecordPool ==
    {RecordIssue, RecordPull, RecordForged, RecordTampered, RecordNoEvent, RecordBlankSignature,
     RecordTruncated, RecordNoEventTruncated, RecordPing, RecordText}

Events == SeqsUpTo(RecordPool, MaxRecords)

(* the manifests a deploy has put into the stack parameters *)
DeployedManifests ==
    {[workers |-> <<>>], [workers |-> <<WorkerReview, WorkerFix>>],
     [workers |-> <<WorkerFix, WorkerRaw>>]}

StackParametersOf(m) == EncodingOf[m].value.parameterValues

(* process.env of the function a deploy of m creates *)
DeployedEnv(m, workerId) ==
    [BareLambdaEnv EXCEPT !.WORKERS_STACK_NAME = Some(<<"skipper-workers">>),
                          !.WORKERS_SHA256 = StackParametersOf(m)[WORKERS_SHA256_PARAM],
                          !.SKIPPER_WORKER_ID = workerId,
                          !.PROMPT = Some(<<"Fix">>)]

StackStates == {None} \cup {Some(StackParametersOf(m)) : m \in DeployedManifests}

InitHandler ==
    /\ event \in Events
    /\ \E m \in DeployedManifests, workerId \in {None, Some(<<"review">>)} :
          /\ lambdaEnv = DeployedEnv(m, workerId)
          /\ stack = Some(StackParametersOf(m))
    /\ pc = IF Len(event) = 0 THEN "done" ELSE "receive"
    /\ ModuleLoaded
    /\ CodecIdle
    /\ RouteIdle
    /\ MintIdle
    /\ DeployIdle
    /\ ProvisionIdle
    /\ SubscriptionIdle
    /\ EnvironmentIdle
    /\ OverlapIdle
    /\ ScopeIdle

(* mutant: handler catches what handleRecord throws and goes on *)
Throw_Swallowed(message) ==
    /\ recordIndex' = recordIndex + 1
    /\ pc' = IF recordIndex + 1 > Len(event) THEN "done" ELSE "receive"
    /\ inflight' = None
    /\ UNCHANGED thrown

(* handleRecord throws, and handler rejects with it *)
Throw(message) ==
    /\ pc' = "failed"
    /\ thrown' = Some(message)
    /\ UNCHANGED <<recordIndex, inflight>>

(* handleRecord returns, and handler's loop goes on *)
Return ==
    /\ recordIndex' = recordIndex + 1
    /\ pc' = IF recordIndex + 1 > Len(event) THEN "done" ELSE "receive"
    /\ inflight' = None
    /\ UNCHANGED thrown

(* handleRecord from its start to the await of verifyWebhookBody *)
ReceiveRecord ==
    /\ pc = "receive"
    /\ \E received \in {receiveRecord(event[recordIndex])} :
          \/ /\ received.kind = "error"
             /\ Throw(received.error)
             /\ UNCHANGED skipped
          \/ /\ received.kind = "skip"
             /\ skipped' = skipped \cup {recordIndex}
             /\ Return
          \/ /\ received.kind = "webhook"
             /\ pc' = "verify"
             /\ inflight' = received.locals
             /\ UNCHANGED <<recordIndex, skipped, thrown>>
    /\ UNCHANGED <<event, lambdaEnv, stack, cachedWorkers, verified, loads, launches>>
    /\ UNCHANGED nonHandlerVars

(* await verifyWebhookBody(rawBody, webhookMeta.signature) *)
VerifySignature ==
    /\ pc = "verify"
    /\ \E check \in {verifyWebhookBody(webhookSecret(lambdaEnv), inflight[1].rawBody,
                                       inflight[1].webhookMeta.signature)} :
          \/ /\ check.ok
             /\ verified' = verified \cup {recordIndex}
             /\ pc' = "load"
             /\ UNCHANGED <<recordIndex, inflight, thrown>>
          \/ /\ ~check.ok
             /\ Throw(check.error)
             /\ UNCHANGED verified
    /\ UNCHANGED <<event, lambdaEnv, stack, cachedWorkers, skipped, loads, launches>>
    /\ UNCHANGED nonHandlerVars

(* await loadWorkersManifest(), then buildTaskEnvironments and the check   *)
(* for an empty result                                                     *)
LoadManifest ==
    /\ pc = "load"
    /\ \E loaded \in {loadWorkersManifest(lambdaEnv, cachedWorkers, stack)} :
          /\ cachedWorkers' = loaded.cachedWorkers
          /\ loads' = Append(loads, [record |-> recordIndex, describes |-> loaded.describes,
                                   ok |-> loaded.result.ok])
          /\ \/ /\ ~loaded.result.ok
                /\ Throw(loaded.result.error)
             \/ /\ loaded.result.ok
                /\ \E built \in {buildTaskEnvironments(inflight[1].payload,
                                                       inflight[1].webhookMeta,
                                                       loaded.result.value, lambdaEnv)} :
                      \/ /\ ~built.ok
                         /\ Throw(built.error)
                      \/ /\ built.ok
                         /\ Len(built.value) = 0
                         /\ Return
                      \/ /\ built.ok
                         /\ Len(built.value) > 0
                         /\ pc' = "run"
                         /\ inflight' = Some([inflight[1] EXCEPT !.environments = built.value])
                         /\ UNCHANGED <<recordIndex, thrown>>
    /\ UNCHANGED <<event, lambdaEnv, stack, verified, skipped, launches>>
    /\ UNCHANGED nonHandlerVars

(* what the container service answers to RunTask; None: the request is rejected *)
RunTaskResponses ==
    {None, Some([failures |-> 0, tasks |-> 1]), Some([failures |-> 1, tasks |-> 0]),
     Some([failures |-> 0, tasks |-> 0])}

(* the launches whose RunTask call has not come back *)
Outstanding == {k \in 1..Len(launches) : ~launches[k].completed}

(* mutant: the loop goes on without waiting for the call it made *)
AwaitRunTask_NotAwaited(outstanding) == TRUE

(* await runTask(environment): the loop body is resumed, and the next      *)
(* iteration entered, only when the call has settled                       *)
AwaitRunTask(outstanding) == outstanding = {}

(* for (const environment of environments): runTask(environment) sends the *)
(* RunTask request for the next environment of the record                  *)
CallRunTask ==
    /\ pc \in {"run", "await"}
    /\ AwaitRunTask(Outstanding)
    /\ inflight[1].sent < Len(inflight[1].environments)
    /\ launches' = Append(launches,
                          [record |-> recordIndex,
                           environment |-> inflight[1].environments[inflight[1].sent + 1],
                           completed |-> FALSE,
                           started |-> FALSE])
    /\ inflight' = Some([inflight[1] EXCEPT !.sent = @ + 1])
    /\ pc' = "await"
    /\ UNCHANGED <<event, lambdaEnv, stack, cachedWorkers, recordIndex, verified, skipped, loads,
                   thrown>>
    /\ UNCHANGED nonHandlerVars

(* the RunTask request comes back: assertRunTaskSuccess, then the next     *)
(* iteration of the loop or the end of handleRecord                        *)
RunTaskSettles ==
    /\ pc = "await"
    /\ Outstanding # {}
    /\ \E response \in RunTaskResponses :
          \E ran \in {runTask(response)}, k \in {SetMin(Outstanding)} :
             /\ launches' = [launches EXCEPT ![k].completed = TRUE, ![k].started = ran.ok]
             /\ \/ /\ ~ran.ok
                   /\ Throw(ran.error)
                \/ /\ ran.ok
                   /\ inflight[1].sent < Len(inflight[1].environments)
                   /\ pc' = "run"
                   /\ UNCHANGED <<recordIndex, inflight, thrown>>
                \/ /\ ran.ok
                   /\ inflight[1].sent = Len(inflight[1].environments)
                   /\ Return
    /\ UNCHANGED <<event, lambdaEnv, stack, cachedWorkers, verified, skipped, loads>>
    /\ UNCHANGED nonHandlerVars

(* a deploy rewrites the stack's worker parameters, or the stack is deleted, *)
(* while the function keeps the environment it was created with           *)
UpdateStack ==
    /\ pc \notin {"done", "failed"}
    /\ \E next \in StackStates :
          /\ next # stack
          /\ stack' = next
    /\ UNCHANGED <<event, lambdaEnv, cachedWorkers, recordIndex, pc, inflight, verified, skipped,
                   loads, launches, thrown>>
    /\ UNCHANGED nonHandlerVars

NextHandler ==
    ReceiveRecord \/ VerifySignature \/ LoadManifest \/ CallRunTask \/ RunTaskSettles \/ UpdateStack

SpecHandler == InitHandler /\ [][NextHandler]_vars

(* The execution context outlives an invocation that rejected: the module  *)
(* and its cachedWorkers stay, and handler is called again.  Here event is *)
(* the sequence of messages the context is handed over its life, and the   *)
(* invocation after a rejected one starts at the message that follows.     *)
InvokeAgain ==
    /\ pc = "failed"
    /\ recordIndex < Len(event)
    /\ recordIndex' = recordIndex + 1
    /\ pc' = "receive"
    /\ thrown' = None
    /\ inflight' = None
    /\ UNCHANGED <<event, lambdaEnv, stack, cachedWorkers, verified, skipped, loads, launches>>
    /\ UNCHANGED nonHandlerVars

NextContext == NextHandler \/ InvokeAgain

SpecContext == InitHandler /\ [][NextContext]_vars


(***************************************************************************)
(* Properties of the handler                                               *)
(***************************************************************************)

(* the record's x-hub-signature-256 header is the signature of its raw     *)
(* body under the webhook secret                                           *)
SignatureVerifies(body) ==
    /\ body.format = "json"
    /\ normalizeHeaders(body.headers)["x-hub-signature-256"]
          = Some(Sign(webhookSecret(lambdaEnv), decodeBase64(OrElse(body.rawBodyB64, <<>>))))

(* the record gets as far as the signature check: its envelope and payload *)
(* parse and none of the three headers is missing                          *)
ReachesSignatureCheck(body) == receiveRecord(body).kind = "webhook"

LaunchesFor(r) == {k \in 1..Len(launches) : launches[k].record = r}
LoadsFor(r) == {k \in 1..Len(loads) : loads[k].record = r}

(* handleRecord has come back from its signature check for record r, or    *)
(* never made it                                                           *)
PastSignatureCheck(r) == recordIndex > r \/ (recordIndex = r /\ pc \notin {"receive", "verify"})

(* C10: a RunTask call or a manifest load is made for a record only once   *)
(* verifyWebhookBody has accepted its raw body, which it does only for the *)
(* signature of that body under the webhook secret; a record whose         *)
(* signature does not verify gets no RunTask call and no manifest load,    *)
(* and when it reaches the check handler rejects at it with 'invalid       *)
(* webhook signature'                                                      *)
C10_SignatureFailsClosed ==
    /\ \A k \in 1..Len(launches) : launches[k].record \in verified
    /\ \A k \in 1..Len(loads) : loads[k].record \in verified
    /\ \A r \in verified : SignatureVerifies(event[r])
    /\ \A r \in 1..Len(event) :
          ~SignatureVerifies(event[r]) =>
              /\ LaunchesFor(r) = {}
              /\ LoadsFor(r) = {}
              /\ (ReachesSignatureCheck(event[r]) /\ PastSignatureCheck(r)) =>
                    /\ recordIndex = r
                    /\ pc = "failed"
                    /\ thrown = Some("invalid webhook signature")

(* after a first record was verified and its task started, a second record *)
(* with a signature made under another secret was rejected                 *)
C10_Witness ==
    /\ pc = "failed"
    /\ thrown = Some("invalid webhook signature")
    /\ recordIndex = 2
    /\ 1 \in verified
    /\ \E k \in LaunchesFor(1) : launches[k].started
    /\ ReachesSignatureCheck(event[2])
    /\ ~SignatureVerifies(event[2])
    /\ LaunchesFor(2) = {}


(* the RunTask call last made was for the record in hand and did not start *)
(* a task                                                                  *)
LaunchFailed ==
    /\ pc = "failed"
    /\ launches # <<>>
    /\ launches[Len(launches)].record = recordIndex
    /\ launches[Len(launches)].completed
    /\ ~launches[Len(launches)].started

(* the environments of the record in hand for which no RunTask call was    *)
(* made                                                                    *)
PendingSiblings == Len(inflight[1].environments) - inflight[1].sent

(* C11: when the RunTask call for one matched worker fails, the RunTask    *)
(* calls for the matched workers after it in the sequence are still made:  *)
(* handler never ends with a failed launch and a matched worker for which  *)
(* no call was made                                                        *)
C11_SiblingLaunchesStillAttempted == LaunchFailed => PendingSiblings = 0


(* the environments of the RunTask calls made for record r, in call order *)
CalledFor(r) ==
    With(SelectSeq([k \in 1..Len(launches) |-> k], LAMBDA k : launches[k].record = r),
         LAMBDA calls : [n \in 1..Len(calls) |-> launches[calls[n]].environment])

(* C12: at most one RunTask call is outstanding at any time; a call is     *)
(* made only when every call before it has come back; the calls for a      *)
(* record are made for its environments in the order buildTaskEnvironments *)
(* returned them; and every call made for an earlier record of the batch   *)
(* has come back before the next record is taken up                        *)
C12_SequentialDispatch ==
    /\ Cardinality(Outstanding) <= 1
    /\ \A k \in Outstanding : k = Len(launches) /\ launches[k].record = recordIndex /\ pc = "await"
    /\ \A k \in 1..Len(launches), j \in 1..Len(launches) :
          k < j => launches[k].completed /\ launches[k].record <= launches[j].record
    /\ \A k \in 1..Len(loads), j \in 1..Len(loads) : k < j => loads[k].record < loads[j].record
    /\ \A k \in 1..Len(launches) : launches[k].record <= recordIndex
    /\ inflight # None =>
          CalledFor(recordIndex) = SubSeq(inflight[1].environments, 1, inflight[1].sent)

(* two calls were made and came back for the first record, and the first   *)
(* call for the second record is outstanding                               *)
C12_Witness ==
    /\ Len(launches) = 3
    /\ launches[1].record = 1 /\ launches[1].completed
    /\ launches[2].record = 1 /\ launches[2].completed
    /\ launches[1].environment # launches[2].environment
    /\ launches[3].record = 2 /\ ~launches[3].completed
    /\ recordIndex = 2


(* the record is a queue envelope that lacks one of the required headers *)
LacksRequiredHeader(body) ==
    /\ parseEnvelope(body).ok
    /\ listMissingWebhookHeaders(normalizeHeaders(parseEnvelope(body).value.headers)) # <<>>

(* handleRecord has been entered for record r and has left its first step *)
Handled(r) == recordIndex > r \/ (recordIndex = r /\ pc # "receive")

(* C13: a record that lacks one of the three required headers is skipped:  *)
(* handler does not fail at it and goes on to the next record, and no      *)
(* signature check, manifest load or RunTask call is made for it           *)
C13_MissingHeaderSkipped ==
    \A r \in 1..Len(event) :
       LacksRequiredHeader(event[r]) /\ Handled(r) =>
          /\ r \in skipped
          /\ recordIndex > r
          /\ r \notin verified
          /\ LoadsFor(r) = {}
          /\ LaunchesFor(r) = {}

(* the same for the records whose raw body parses as a payload *)
C13_MissingHeaderSkippedIfPayloadParses ==
    \A r \in 1..Len(event) :
       (/\ LacksRequiredHeader(event[r])
        /\ parseGitHubPayload(decodeBase64(OrElse(event[r].rawBodyB64, <<>>))).ok
        /\ Handled(r)) =>
          /\ r \in skipped
          /\ recordIndex > r
          /\ r \notin verified
          /\ LoadsFor(r) = {}
          /\ LaunchesFor(r) = {}


(***************************************************************************)
(* Stack deployment (src/command/aws/cloudformation.ts)                    *)
(*                                                                         *)
(* A status is the sequence of its words: UPDATE_ROLLBACK_COMPLETE is      *)
(* <<"UPDATE", "ROLLBACK", "COMPLETE">>.  An error message is the sequence *)
(* of its phrases.                                                         *)
(***************************************************************************)

SUCCESS_STATES == {<<"CREATE", "COMPLETE">>, <<"UPDATE", "COMPLETE">>}

FAILURE_STATES ==
    {<<"CREATE", "FAILED">>, <<"ROLLBACK", "COMPLETE">>, <<"ROLLBACK", "FAILED">>,
     <<"DELETE", "FAILED">>, <<"UPDATE", "ROLLBACK", "FAILED">>,
     <<"UPDATE", "ROLLBACK", "COMPLETE">>, <<"UPDATE", "FAILED">>}

(* mutant: every status that ends in COMPLETE counts as a success *)
classifyStackStatus_AnyComplete(status) ==
    IF status # <<>> /\ status[Len(status)] = "COMPLETE" THEN "success"
    ELSE IF status \in FAILURE_STATES THEN "failure"
    ELSE "in-progress"

classifyStackStatus(status) ==
    IF status \in SUCCESS_STATES THEN "success"
    ELSE IF status \in FAILURE_STATES THEN "failure"
    ELSE "in-progress"

(* current.endsWith("_IN_PROGRESS") *)
endsWithInProgress(status) ==
    Len(status) > 2 /\ SubSeq(status, Len(status) - 1, Len(status)) = <<"IN", "PROGRESS">>

(* mutant: the in-flight test is missing *)
RejectsInFlight_Never(status) == FALSE

(* if (current.endsWith("_IN_PROGRESS")) throw *)
RejectsInFlight(status) == endsWithInProgress(status)

(* message.includes(phrase) *)
Includes(message, phrase) == \E k \in 1..Len(message) : message[k] = phrase

DoesNotExistError == <<"Stack with id skipper ", "does not exist">>
NoUpdatesError == <<"ValidationError: ", "No updates are to be performed", ".">>
UpdateRejectedError == <<"ValidationError: ", "stack is in a state that can not be updated">>

(* mutant: a 'no changes' answer is an error like any other *)
IsNoUpdates_Never(message) == FALSE

(* message.includes("No updates are to be performed") *)
IsNoUpdates(message) == Includes(message, "No updates are to be performed")

pollIntervalMs == 5000
msPerMinute == 60000

(* the statuses the provider reports in the model: the success and failure *)
(* statuses, the transient ones of a create or an update, and some others  *)
StackStatuses ==
    SUCCESS_STATES \cup FAILURE_STATES
        \cup {<<"CREATE", "IN", "PROGRESS">>, <<"ROLLBACK", "IN", "PROGRESS">>,
              <<"UPDATE", "IN", "PROGRESS">>, <<"UPDATE", "COMPLETE", "CLEANUP", "IN", "PROGRESS">>,
              <<"UPDATE", "ROLLBACK", "IN", "PROGRESS">>, <<"DELETE", "COMPLETE">>,
              <<"IMPORT", "COMPLETE">>, <<"PAUSED">>}

(* where the provider takes a stack next on its own *)
NextStatuses(status) ==
    IF status = <<"CREATE", "IN", "PROGRESS">>
    THEN {<<"CREATE", "COMPLETE">>, <<"CREATE", "FAILED">>, <<"ROLLBACK", "IN", "PROGRESS">>}
    ELSE IF status = <<"ROLLBACK", "IN", "PROGRESS">>
    THEN {<<"ROLLBACK", "COMPLETE">>, <<"ROLLBACK", "FAILED">>}
    ELSE IF status = <<"UPDATE", "IN", "PROGRESS">>
    THEN {<<"UPDATE", "COMPLETE", "CLEANUP", "IN", "PROGRESS">>, <<"UPDATE", "FAILED">>,
          <<"UPDATE", "ROLLBACK", "IN", "PROGRESS">>}
    ELSE IF status = <<"UPDATE", "COMPLETE", "CLEANUP", "IN", "PROGRESS">>
    THEN {<<"UPDATE", "COMPLETE">>}
    ELSE IF status = <<"UPDATE", "ROLLBACK", "IN", "PROGRESS">>
    THEN {<<"UPDATE", "ROLLBACK", "COMPLETE">>, <<"UPDATE", "ROLLBACK", "FAILED">>}
    ELSE {}

(* the statuses DescribeStacks reports for a stack name: a deleted stack   *)
(* does not exist under its name                                           *)
DescribedStatuses == StackStatuses \ {<<"DELETE", "COMPLETE">>, <<"PAUSED">>}

MaxTimeoutMinutes == 1

(* the time an awaited provider call takes *)
CallLatenciesMs == {0, 2500}

InitDeploy ==
    /\ cfnStack \in {None} \cup {Some([status |-> status]) : status \in DescribedStatuses}
    /\ deployInput \in [timeoutMinutes : 0..MaxTimeoutMinutes]
    /\ deployPc = "stackExists"
    /\ clock = 1000
    /\ deadline = None
    /\ current = None
    /\ deployAction = None
    /\ requests = {}
    /\ updateAnswer = None
    /\ classified = None
    /\ terminal = None
    /\ deployOutcome = None
    /\ CodecIdle
    /\ RouteIdle
    /\ MintIdle
    /\ HandlerIdle
    /\ ProvisionIdle
    /\ SubscriptionIdle
    /\ EnvironmentIdle
    /\ OverlapIdle
    /\ ScopeIdle

(* client.send(command) is called at the current time and awaited; the   *)
(* model keeps which requests were made, and whether after the deadline    *)
Send(kind) ==
    /\ requests' = requests \cup {[kind |-> kind, late |-> deadline # None /\ clock >= deadline[1]]}
    /\ \E latency \in CallLatenciesMs : clock' = clock + latency

DeployThrows(message) ==
    /\ deployPc' = "failed"
    /\ deployOutcome' = Some([ok |-> FALSE, error |-> message])

(* stackExists: DescribeStacks answers, or fails with 'does not exist' *)
StackExists ==
    /\ deployPc = "stackExists"
    /\ Send("DescribeStacks")
    /\ \E answer \in {IF cfnStack = None THEN Some(DoesNotExistError) ELSE None} :
          deployPc' = IF answer = None THEN "getStackStatus"
                      ELSE IF Includes(answer[1], "does not exist") THEN "createStack"
                      ELSE "failed"
    /\ UNCHANGED <<cfnStack, deployInput, deadline, current, deployAction, updateAnswer,
                   classified, terminal, deployOutcome>>
    /\ UNCHANGED nonDeployVars

(* waitForTerminalStatus is entered: deadline = Date.now() + timeoutMinutes * 60_000 *)
EnterWait(action) ==
    /\ deployAction' = Some(action)
    /\ deadline' = Some(clock' + deployInput.timeoutMinutes * msPerMinute)
    /\ deployPc' = "waitForTerminalStatus"

(* the stack is absent: CreateStack, then waitForTerminalStatus *)
CreateStack ==
    /\ deployPc = "createStack"
    /\ Send("CreateStack")
    /\ cfnStack' = Some([status |-> <<"CREATE", "IN", "PROGRESS">>])
    /\ EnterWait("create")
    /\ UNCHANGED <<deployInput, current, updateAnswer, classified, terminal, deployOutcome>>
    /\ UNCHANGED nonDeployVars

(* getStackStatus, and the test for an operation in flight *)
GetStackStatus ==
    /\ deployPc = "getStackStatus"
    /\ Send("DescribeStacks")
    /\ current' = Some(cfnStack[1].status)
    /\ IF RejectsInFlight(cfnStack[1].status)
       THEN DeployThrows(<<"Stack skipper currently ">> \o cfnStack[1].status)
       ELSE deployPc' = "updateStack" /\ UNCHANGED deployOutcome
    /\ UNCHANGED <<cfnStack, deployInput, deadline, deployAction, updateAnswer, classified,
                   terminal>>
    /\ UNCHANGED nonDeployVars

(* what the provider answers to UpdateStack: it starts the update, or it   *)
(* refuses with a message                                                  *)
UpdateAnswers ==
    {[ok |-> TRUE, message |-> <<>>], [ok |-> FALSE, message |-> NoUpdatesError],
     [ok |-> FALSE, message |-> UpdateRejectedError]}

(* UpdateStack; on 'no changes' getOutputs and the noop result; any other  *)
(* error is thrown on                                                      *)
UpdateStack_ ==
    /\ deployPc = "updateStack"
    /\ Send("UpdateStack")
    /\ \E answer \in UpdateAnswers :
          /\ updateAnswer' = Some(answer)
          /\ \/ /\ answer.ok
                /\ cfnStack' = Some([status |-> <<"UPDATE", "IN", "PROGRESS">>])
                /\ EnterWait("update")
                /\ UNCHANGED deployOutcome
             \/ /\ ~answer.ok
                /\ IsNoUpdates(answer.message)
                /\ deployAction' = Some("noop")
                /\ deployPc' = "getOutputs"
                /\ UNCHANGED <<cfnStack, deadline, deployOutcome>>
             \/ /\ ~answer.ok
                /\ ~IsNoUpdates(answer.message)
                /\ DeployThrows(answer.message)
                /\ UNCHANGED <<cfnStack, deadline, deployAction>>
    /\ UNCHANGED <<deployInput, current, classified, terminal>>
    /\ UNCHANGED nonDeployVars

(* mutant: the loop never looks at the clock *)
BeforeDeadline_Always(nowMs, deadlineMs) == TRUE

(* while (Date.now() < deadline) *)
BeforeDeadline(nowMs, deadlineMs) == nowMs < deadlineMs

(* one turn of waitForTerminalStatus's loop up to its sleep, or its end    *)
PollStatus ==
    /\ deployPc = "waitForTerminalStatus"
    /\ IF ~BeforeDeadline(clock, deadline[1])
       THEN /\ DeployThrows(<<"Timed out waiting for stack skipper">>)
            /\ UNCHANGED <<requests, clock, classified, terminal>>
       ELSE /\ Send("DescribeStacks:poll")
            /\ \E status \in {cfnStack[1].status} :
                  \E kind \in {classifyStackStatus(status)} :
                     /\ classified' = Some([status |-> status, kind |-> kind])
                     /\ \/ /\ kind = "success"
                           /\ terminal' = Some(status)
                           /\ deployPc' = "getOutputs"
                           /\ UNCHANGED deployOutcome
                        \/ /\ kind = "failure"
                           /\ DeployThrows(<<"Stack failed: ">> \o status)
                           /\ UNCHANGED terminal
                        \/ /\ kind = "in-progress"
                           /\ deployPc' = "sleep"
                           /\ UNCHANGED <<terminal, deployOutcome>>
    /\ UNCHANGED <<cfnStack, deployInput, deadline, current, deployAction, updateAnswer>>
    /\ UNCHANGED nonDeployVars

(* await Bun.sleep(5000) *)
Sleep ==
    /\ deployPc = "sleep"
    /\ clock' = clock + pollIntervalMs
    /\ deployPc' = "waitForTerminalStatus"
    /\ UNCHANGED <<cfnStack, deployInput, deadline, current, deployAction, requests,
                   updateAnswer, classified, terminal, deployOutcome>>
    /\ UNCHANGED nonDeployVars

(* getOutputs, and the result *)
GetOutputs ==
    /\ deployPc = "getOutputs"
    /\ Send("DescribeStacks")
    /\ deployOutcome' =
          Some([ok |-> TRUE, action |-> deployAction[1],
                status |-> IF deployAction[1] = "noop" THEN current[1] ELSE terminal[1]])
    /\ deployPc' = "done"
    /\ UNCHANGED <<cfnStack, deployInput, deadline, current, deployAction, updateAnswer,
                   classified, terminal>>
    /\ UNCHANGED nonDeployVars

(* the provider moves the stack on *)
ProviderProgress ==
    /\ cfnStack # None
    /\ deployPc \notin {"done", "failed"}
    /\ \E status \in NextStatuses(cfnStack[1].status) : cfnStack' = Some([status |-> status])
    /\ UNCHANGED <<deployInput, deployPc, clock, deadline, current, deployAction, requests,
                   updateAnswer, classified, terminal, deployOutcome>>
    /\ UNCHANGED nonDeployVars

DeployStep ==
    StackExists \/ CreateStack \/ GetStackStatus \/ UpdateStack_ \/ PollStatus \/ Sleep
        \/ GetOutputs

NextDeploy == DeployStep \/ ProviderProgress

SpecDeploy == InitDeploy /\ [][NextDeploy]_vars

(* every await of deployStack comes back *)
SpecDeployLive == SpecDeploy /\ WF_vars(DeployStep)


(***************************************************************************)
(* Properties of the stack deployment                                      *)
(***************************************************************************)

Requested(kind) == \E request \in requests : request.kind = kind

Refused == updateAnswer # None /\ ~updateAnswer[1].ok

AnsweredNoChanges == Refused /\ Includes(updateAnswer[1].message, "No updates are to be performed")

(* C14: when the provider answers the update request of an existing stack  *)
(* with 'no changes', deployStack goes on to its result, which has the     *)
(* action 'noop' and the status it read before the request, and it never   *)
(* enters the poll loop; any other refusal is the error deployStack ends   *)
(* with.                                                                   *)
C14_NoChangesIsNoop ==
    /\ AnsweredNoChanges =>
          /\ deployPc \in {"getOutputs", "done"}
          /\ deployAction = Some("noop")
          /\ deadline = None
          /\ ~Requested("DescribeStacks:poll")
          /\ ~endsWithInProgress(current[1])
          /\ deployPc = "done" =>
                deployOutcome = Some([ok |-> TRUE, action |-> "noop", status |-> current[1]])
    /\ (Refused /\ ~AnsweredNoChanges) =>
          /\ deployPc = "failed"
          /\ deployOutcome = Some([ok |-> FALSE, error |-> updateAnswer[1].message])
          /\ ~Requested("DescribeStacks:poll")

C14_Witness ==
    /\ AnsweredNoChanges
    /\ deployPc = "done"
    /\ deployOutcome[1].action = "noop"
    /\ deployOutcome[1].status = <<"UPDATE", "ROLLBACK", "COMPLETE">>

InFlightRejected ==
    /\ deployPc = "failed"
    /\ deployOutcome = Some([ok |-> FALSE, error |-> <<"Stack skipper currently ">> \o current[1]])
    /\ ~Requested("CreateStack")
    /\ ~Requested("UpdateStack")
    /\ ~Requested("DescribeStacks:poll")

(* C15 as stated: an existing stack whose status classifies as in-progress *)
(* is rejected at once, with no create, update or poll request, and an     *)
(* update request is sent only for a status that classifies as success or  *)
(* failure.                                                                *)
C15_RejectsWhatClassifiesInProgress ==
    /\ (current # None /\ classifyStackStatus(current[1]) = "in-progress") => InFlightRejected
    /\ Requested("UpdateStack") =>
          current # None /\ classifyStackStatus(current[1]) \in {"success", "failure"}

(* C15: an existing stack whose status ends in _IN_PROGRESS is rejected at *)
(* once, with no create, update or poll request, and an update request is  *)
(* sent only for an existing stack whose status does not end in            *)
(* _IN_PROGRESS.                                                           *)
C15_RejectsInProgressSuffix ==
    /\ (current # None /\ endsWithInProgress(current[1])) => InFlightRejected
    /\ Requested("UpdateStack") => current # None /\ ~endsWithInProgress(current[1])
    /\ current # None => ~Requested("CreateStack")

C15_Witness ==
    /\ current = Some(<<"UPDATE", "COMPLETE", "CLEANUP", "IN", "PROGRESS">>)
    /\ InFlightRejected

Terminated == deployPc \in {"done", "failed"}

TimeoutError == <<"Timed out waiting for stack skipper">>

FailureObserved == classified # None /\ classified[1].kind = "failure"

WaitSafe ==
    /\ \A request \in requests : request.kind = "DescribeStacks:poll" => ~request.late
    /\ (deployPc = "done" /\ deployAction # Some("noop")) =>
          /\ deployOutcome[1].ok
          /\ deployOutcome[1].status \in SUCCESS_STATES
          /\ classified = Some([status |-> deployOutcome[1].status, kind |-> "success"])
    /\ FailureObserved =>
          /\ deployPc = "failed"
          /\ deployOutcome = Some([ok |-> FALSE, error |-> <<"Stack failed: ">> \o classified[1].status])
          /\ classified[1].status \in FAILURE_STATES
    /\ (deployPc = "failed" /\ deployOutcome[1].error = TimeoutError) =>
          /\ ~FailureObserved
          /\ terminal = None
          /\ clock >= deadline[1]
    /\ (deployPc = "failed" /\ deadline # None /\ Refused = FALSE) =>
          \/ FailureObserved
          \/ deployOutcome[1].error = TimeoutError
    /\ deployPc = "sleep" => classified[1].kind = "in-progress"
    /\ deadline # None => deadline[1] <= clock + deployInput.timeoutMinutes * 60000

(* C16: deployStack always ends; once its create or update request is      *)
(* accepted it ends with a result whose status is a success status, with   *)
(* the failure error as soon as a poll sees a failure status, or with the  *)
(* timeout error, which differs from the failure error, once the deadline  *)
(* has passed; no poll is sent at or after the deadline.                   *)
C16_DeployTerminates == []WaitSafe /\ <>Terminated

C16_Witness ==
    /\ deployPc = "failed"
    /\ deployOutcome[1].error = TimeoutError
    /\ Requested("DescribeStacks:poll")
    /\ deployInput.timeoutMinutes > 0

StackStatusKinds == {"success", "failure", "in-progress"}

(* C17: classifyStackStatus answers for every status; it answers success   *)
(* exactly for CREATE_COMPLETE and UPDATE_COMPLETE, failure exactly for    *)
(* the seven failure statuses, and in-progress for everything else, such   *)
(* as DELETE_COMPLETE and a status it has never heard of; no status is in  *)
(* both sets.                                                              *)
C17_ClassifyTotalAndExact ==
    /\ \A status \in StackStatuses \cup {<<>>} :
          /\ classifyStackStatus(status) \in StackStatusKinds
          /\ classifyStackStatus(status) = "success" <=>
                status \in {<<"CREATE", "COMPLETE">>, <<"UPDATE", "COMPLETE">>}
          /\ classifyStackStatus(status) = "failure" <=>
                status \in {<<"CREATE", "FAILED">>, <<"ROLLBACK", "COMPLETE">>,
                            <<"ROLLBACK", "FAILED">>, <<"DELETE", "FAILED">>,
                            <<"UPDATE", "ROLLBACK", "FAILED">>,
                            <<"UPDATE", "ROLLBACK", "COMPLETE">>, <<"UPDATE", "FAILED">>}
    /\ classifyStackStatus(<<"DELETE", "COMPLETE">>) = "in-progress"
    /\ classifyStackStatus(<<"PAUSED">>) = "in-progress"
    /\ SUCCESS_STATES \cap FAILURE_STATES = {}
    /\ Cardinality(SUCCESS_STATES) = 2
    /\ Cardinality(FAILURE_STATES) = 7
    /\ classified # None =>
          /\ classified[1].kind = "success" <=> classified[1].status \in SUCCESS_STATES
          /\ classified[1].kind = "failure" <=> classified[1].status \in FAILURE_STATES
          /\ classified[1].kind \in StackStatusKinds

C17_Witness ==
    classified = Some([status |-> <<"UPDATE", "COMPLETE", "CLEANUP", "IN", "PROGRESS">>,
                       kind |-> "in-progress"])


(***************************************************************************)
(* Dispatch with an installation token                                     *)
(*                                                                         *)
(* The handler whose tests are in lambda/handler.test.ts reads the         *)
(* installation id of the payload, has the credential runtime mint a token *)
(* for it, and passes the token to buildTaskEnvironments.                  *)
(***************************************************************************)

readInstallationId(payload) ==
    With(Chain(payload.installation, "id"),
         LAMBDA id :
            IF id = None
            THEN Err("missing installation.id in github payload")
            ELSE Ok(JsInteger(id[1])))

(* buildTaskEnvironments(payload, webhookMeta, manifest, githubToken) *)
buildTaskEnvironmentsWithToken(payload, webhookMeta, workers, env, githubToken) ==
    buildTaskEnvironments(payload, webhookMeta, workers,
                          [env EXCEPT !.GITHUB_TOKEN = Some(githubToken)])

DispatchRecordPool == {RecordIssue, RecordPull, RecordPing, RecordForged}

InitDispatch ==
    /\ event \in SeqsUpTo(DispatchRecordPool, MaxRecords)
    /\ \E m \in DeployedManifests, workerId \in {None, Some(<<"review">>)} :
          /\ lambdaEnv = DeployedEnv(m, workerId)
          /\ stack = Some(StackParametersOf(m))
    /\ pc = IF Len(event) = 0 THEN "done" ELSE "receive"
    /\ ModuleLoaded
    /\ now = 0
    /\ keyValue \in KeyValues
    /\ RuntimeCreated
    /\ CodecIdle
    /\ RouteIdle
    /\ DeployIdle
    /\ ProvisionIdle
    /\ SubscriptionIdle
    /\ EnvironmentIdle
    /\ OverlapIdle
    /\ ScopeIdle

(* the runtime's caches and counters after a call *)
MintSettles(installationId, read, call) ==
    /\ installationTokenCache' = call.installationTokenCache
    /\ cachedPrivateKey' = call.cachedPrivateKey
    /\ privateKeyReads' = privateKeyReads + call.reads
    /\ tokenMints' = tokenMints + call.exchanges
    /\ lastMint' = Some([installationId |-> installationId,
                         nowMs |-> now,
                         cachedToken |-> installationTokenCache[installationId],
                         installationTokenCache |-> installationTokenCache,
                         cachedPrivateKey |-> cachedPrivateKey,
                         read |-> read,
                         result |-> call.result,
                         reads |-> call.reads,
                         exchanges |-> call.exchanges,
                         appJwt |-> call.appJwt])

(* await loadWorkersManifest(), then the token for the payload's           *)
(* installation, then buildTaskEnvironments with it                        *)
LoadManifestAndMint ==
    /\ pc = "load"
    /\ \E loaded \in {loadWorkersManifest(lambdaEnv, cachedWorkers, stack)},
          installation \in {readInstallationId(inflight[1].payload)} :
          /\ cachedWorkers' = loaded.cachedWorkers
          /\ loads' = Append(loads, [record |-> recordIndex, describes |-> loaded.describes,
                                   ok |-> loaded.result.ok])
          /\ \/ /\ ~loaded.result.ok
                /\ Throw(loaded.result.error)
                /\ UNCHANGED <<installationTokenCache, cachedPrivateKey, privateKeyReads,
                               tokenMints, lastMint>>
             \/ /\ loaded.result.ok
                /\ ~installation.ok
                /\ Throw(installation.error)
                /\ UNCHANGED <<installationTokenCache, cachedPrivateKey, privateKeyReads,
                               tokenMints, lastMint>>
             \/ /\ loaded.result.ok
                /\ installation.ok
                /\ \E read \in ReadOutcomes, exchange \in ExchangeOutcomes(installation.value) :
                      \E call \in {mintInstallationToken(installationTokenCache, cachedPrivateKey,
                                                         installation.value, now, read,
                                                         exchange)} :
                         /\ MintSettles(installation.value, read, call)
                         /\ \/ /\ ~call.result.ok
                               /\ Throw(call.result.error)
                            \/ /\ call.result.ok
                               /\ \E built \in {buildTaskEnvironmentsWithToken(
                                                    inflight[1].payload, inflight[1].webhookMeta,
                                                    loaded.result.value, lambdaEnv,
                                                    call.result.value)} :
                                     \/ /\ ~built.ok
                                        /\ Throw(built.error)
                                     \/ /\ built.ok
                                        /\ Len(built.value) = 0
                                        /\ Return
                                     \/ /\ built.ok
                                        /\ Len(built.value) > 0
                                        /\ pc' = "run"
                                        /\ inflight' = Some([inflight[1] EXCEPT
                                                                !.environments = built.value])
                                        /\ UNCHANGED <<recordIndex, thrown>>
    /\ UNCHANGED <<event, lambdaEnv, stack, verified, skipped, launches, now, keyValue>>
    /\ UNCHANGED <<codecVars, routeVars, deployVars, provisionVars, subscriptionVars,
                   environmentVars, overlapVars, scopeVars>>

NextDispatch ==
    ReceiveRecord \/ VerifySignature \/ LoadManifestAndMint \/ CallRunTask \/ RunTaskSettles

SpecDispatch == InitDispatch /\ [][NextDispatch]_vars


(***************************************************************************)
(* Properties of the dispatch with an installation token                   *)
(***************************************************************************)

Holds(environment, name, value) ==
    \E k \in 1..Len(environment) : environment[k] = [name |-> name, value |-> value]

Names(environment, name) ==
    Cardinality({k \in 1..Len(environment) : environment[k].name = name})

(* an enabled worker with a trigger for the GitHub event that names neither *)
(* actions nor a filter                                                    *)
SubscribedUnfiltered(worker, githubEvent) ==
    /\ worker.metadata.enabled # Some(FALSE)
    /\ \E k \in 1..Len(worker.triggers) :
          worker.triggers[k] = [provider |-> <<"github">>, event |-> githubEvent,
                                actions |-> None, if |-> None]

HasTriggerFor(worker, githubEvent) ==
    \E k \in 1..Len(worker.triggers) : worker.triggers[k].event = githubEvent

(* the environments of the record in hand have been built *)
EnvironmentsBuilt ==
    /\ pc \in {"run", "await"}
    /\ inflight # None
    /\ cachedWorkers # None
    /\ cachedWorkers[1].manifest # None

(* the workers of the manifest the function holds *)
LoadedWorkers == cachedWorkers[1].manifest[1].workers

(* the record in hand carries an event, an action, a repository name, a    *)
(* positive issue number and an installation id                            *)
IssueMessage ==
    /\ EnvironmentsBuilt
    /\ recordIndex \in verified
    /\ inflight[1].payload.action # None
    /\ Chain(inflight[1].payload.repository, "full_name") # None
    /\ Chain(inflight[1].payload.issue, "number") # None
    /\ inflight[1].payload.issue[1].number[1] > 0
    /\ Chain(inflight[1].payload.installation, "id") # None

SoleSubscriberIs(worker) ==
    /\ lambdaEnv.SKIPPER_WORKER_ID = None
    /\ \E k \in 1..Len(LoadedWorkers) :
          /\ LoadedWorkers[k] = worker
          /\ SubscribedUnfiltered(worker, inflight[1].webhookMeta.githubEvent)
          /\ \A j \in 1..Len(LoadedWorkers) :
                j # k => ~HasTriggerFor(LoadedWorkers[j], inflight[1].webhookMeta.githubEvent)

loadWorkers(files) ==
    With([k \in 1..Len(files) |-> parseWorkerDefinition(files[k])],
         LAMBDA parsed :
            With({k \in 1..Len(files) :
                     \/ ~parsed[k].ok
                     \/ \E j \in 1..(k - 1) :
                           /\ parsed[j].ok
                           /\ parsed[j].value.metadata.id = parsed[k].value.metadata.id},
                 LAMBDA bad :
                    IF bad = {} THEN Ok([k \in 1..Len(files) |-> parsed[k].value])
                    ELSE IF ~parsed[SetMin(bad)].ok THEN parsed[SetMin(bad)]
                    ELSE Err("duplicate worker id")))

(* mutant: the deploy command reads the bootstrap stack before it encodes *)
FlowSteps_SharedConfigFirst(command) ==
    IF command = "deploy"
    THEN <<"loadWorkers", "resolveGithubRepo", "readStackOutputs", "encodeWorkerManifest",
           "dryRun", "buildAndUploadLambdaArtifact", "deployStack">>
    ELSE IF command = "bootstrap"
    THEN <<"loadWorkers", "encodeWorkerManifest", "resolveGithubRepo", "dryRun",
           "discoverDefaultNetwork", "deployStack", "upsertGithubWebhook">>
    ELSE <<"loadWorkers", "encodeWorkerManifest", "dryRun", "readStack", "UpdateStack",
           "waitForStack">>

(* the steps of a command, in the order of its code *)
FlowSteps(command) ==
    IF command = "bootstrap"
    THEN <<"loadWorkers", "encodeWorkerManifest", "resolveGithubRepo", "dryRun",
           "discoverDefaultNetwork", "deployStack", "upsertGithubWebhook">>
    ELSE IF command = "deploy"
    THEN <<"loadWorkers", "encodeWorkerManifest", "resolveGithubRepo", "readStackOutputs",
           "dryRun", "buildAndUploadLambdaArtifact", "deployStack">>
    ELSE <<"loadWorkers", "encodeWorkerManifest", "dryRun", "readStack", "UpdateStack",
           "waitForStack">>

(* the steps that call a remote service *)
RemoteSteps ==
    {"resolveGithubRepo", "readStackOutputs", "discoverDefaultNetwork",
     "buildAndUploadLambdaArtifact", "deployStack", "upsertGithubWebhook", "readStack",
     "UpdateStack", "waitForStack"}

(* the steps inside the try of executeBootstrap and executeDeploy, whose   *)
(* catch reads the stack events                                            *)
StepsWithFailureSummary ==
    {"discoverDefaultNetwork", "buildAndUploadLambdaArtifact", "deployStack",
     "upsertGithubWebhook"}

Commands == {"bootstrap", "deploy", "workers-sync"}

InitProvision ==
    /\ flow \in [command : Commands, strict : BOOLEAN, dryRun : BOOLEAN,
                 files : SeqsUpTo(WorkerPool, MaxWorkers)]
    /\ flowAt = 1
    /\ workersLoaded = None
    /\ workersEncoded = None
    /\ remoteCalls = <<>>
    /\ flowEnd = None
    /\ CodecIdle
    /\ RouteIdle
    /\ MintIdle
    /\ HandlerIdle
    /\ DeployIdle
    /\ SubscriptionIdle
    /\ EnvironmentIdle
    /\ OverlapIdle
    /\ ScopeIdle

NextStepIs(name) ==
    /\ flowEnd = None
    /\ flowAt <= Len(FlowSteps(flow.command))
    /\ FlowSteps(flow.command)[flowAt] = name

Advance ==
    /\ flowAt' = flowAt + 1
    /\ flowEnd' = IF flowAt + 1 > Len(FlowSteps(flow.command)) THEN Some("done") ELSE None

FlowThrows(message) ==
    /\ flowEnd' = Some(message)
    /\ UNCHANGED flowAt

(* loadWorkers, and the check of --strict-workers *)
LoadWorkers ==
    /\ NextStepIs("loadWorkers")
    /\ \E workers \in {loadWorkers(flow.files)} :
          \/ /\ ~workers.ok
             /\ FlowThrows(workers.error)
             /\ UNCHANGED workersLoaded
          \/ /\ workers.ok
             /\ flow.strict
             /\ Len(workers.value) = 0
             /\ FlowThrows("no workers found in .skipper/worker/*.ts")
             /\ UNCHANGED workersLoaded
          \/ /\ workers.ok
             /\ ~(flow.strict /\ Len(workers.value) = 0)
             /\ workersLoaded' = Some(workers.value)
             /\ Advance
    /\ UNCHANGED <<flow, workersEncoded, remoteCalls>>
    /\ UNCHANGED nonProvisionVars

(* encodeWorkerManifest({ workers }) *)
EncodeWorkers ==
    /\ NextStepIs("encodeWorkerManifest")
    /\ \E result \in {encodeWorkerManifest([workers |-> workersLoaded[1]])} :
          /\ workersEncoded' = Some(result)
          /\ IF result.ok THEN Advance ELSE FlowThrows(result.error)
    /\ UNCHANGED <<flow, workersLoaded, remoteCalls>>
    /\ UNCHANGED nonProvisionVars

(* with --dry-run the command prints and returns *)
DryRun ==
    /\ NextStepIs("dryRun")
    /\ IF flow.dryRun THEN flowEnd' = Some("done") /\ UNCHANGED flowAt ELSE Advance
    /\ UNCHANGED <<flow, workersLoaded, workersEncoded, remoteCalls>>
    /\ UNCHANGED nonProvisionVars

(* a step that calls a remote service, which answers or fails *)
RemoteCall ==
    /\ \E name \in RemoteSteps :
          /\ NextStepIs(name)
          /\ \E answered \in BOOLEAN :
                IF answered
                THEN /\ remoteCalls' = Append(remoteCalls, name)
                     /\ Advance
                ELSE /\ remoteCalls' =
                           remoteCalls \o <<name>>
                               \o (IF name \in StepsWithFailureSummary
                                   THEN <<"getFailureSummary">> ELSE <<>>)
                     /\ FlowThrows(name)
    /\ UNCHANGED <<flow, workersLoaded, workersEncoded>>
    /\ UNCHANGED nonProvisionVars

NextProvision == LoadWorkers \/ EncodeWorkers \/ DryRun \/ RemoteCall

SpecProvision == InitProvision /\ [][NextProvision]_vars

(***************************************************************************)
(* Properties of the commands                                              *)
(***************************************************************************)

ChunksNeeded(workers) ==
    (Len(gzipBase64(JSON_stringify([workers |-> workers]))) + WORKER_CHUNK_SIZE - 1)
        \div WORKER_CHUNK_SIZE

(* C19: encodeWorkerManifest fails with the too-large error exactly when   *)
(* the encoded workers need more than WORKER_CHUNK_COUNT chunks, and when  *)
(* it fails in a bootstrap, deploy or workers-sync command, the command    *)
(* ends with that error without having called any remote service.          *)
C19_OversizeRejectedBeforeRemoteCalls ==
    /\ workersEncoded # None =>
          /\ workersLoaded # None
          /\ (Len(workersLoaded[1]) > 0 /\ ChunksNeeded(workersLoaded[1]) > 12) <=>
                workersEncoded[1] = Err("worker manifest too large")
          /\ ~workersEncoded[1].ok =>
                /\ remoteCalls = <<>>
                /\ flowEnd = Some("worker manifest too large")
    /\ remoteCalls # <<>> => workersEncoded # None /\ workersEncoded[1].ok

C19_Witness ==
    /\ workersEncoded = Some(Err("worker manifest too large"))
    /\ flow.command = "deploy"
    /\ flowEnd # None
    /\ ChunksNeeded(workersLoaded[1]) = 13


(***************************************************************************)
(* Event subscriptions (src/worker/github-events.ts)                       *)
(***************************************************************************)

(* the place of a unit in the collation localeCompare goes by: punctuation *)
(* before digits before letters, a lower-case letter before its capital    *)
CollationRank(u) ==
    CASE u = "-" -> 0 [] u = "7" -> 1 [] u = "a" -> 2 [] u = "A" -> 3 [] u = "b" -> 4
      [] u = "c" -> 5 [] u = "fix" -> 6 [] u = "issue_comment" -> 7 [] u = "issues" -> 8
      [] u = "lint" -> 9 [] u = "pull_request" -> 10 [] u = "review" -> 11

(* left.localeCompare(right): negative, zero or positive *)
localeCompare(left, right) ==
    With({k \in 1..Len(left) : k > Len(right) \/ left[k] # right[k]},
         LAMBDA differs :
            IF differs = {}
            THEN (IF Len(left) = Len(right) THEN 0 ELSE -1)
            ELSE IF SetMin(differs) > Len(right) THEN 1
            ELSE IF CollationRank(left[SetMin(differs)]) < CollationRank(right[SetMin(differs)])
            THEN -1
            ELSE 1)

(* Array.prototype.sort(compare), which is stable: an element goes behind  *)
(* those that compare lower and those that compare equal and stood before  *)
SortBy(list, compare(_, _)) ==
    [n \in 1..Len(list) |->
        list[CHOOSE i \in 1..Len(list) :
                Cardinality({j \in 1..Len(list) :
                                \/ compare(list[j], list[i]) < 0
                                \/ compare(list[j], list[i]) = 0 /\ j < i}) = n - 1]]

(* mutant: an array that keeps what is added twice *)
NewSet_KeepsDuplicates(added) == added

(* [...set] of a Set to which the values of added were added in turn *)
NewSet(added) ==
    With({k \in 1..Len(added) : \A j \in 1..(k - 1) : added[j] # added[k]},
         LAMBDA firsts :
            [n \in 1..Cardinality(firsts) |->
                added[CHOOSE k \in firsts : Cardinality({j \in firsts : j < k}) = n - 1]])

(* mutant: only the first trigger of a worker is looked at *)
AddedEvents_FirstTriggerOnly(worker) ==
    With(SelectSeq(SubSeq(worker.triggers, 1, 1),
                   LAMBDA trigger : /\ trigger.provider = <<"github">>
                                    /\ Len(TrimText(trigger.event)) > 0),
         LAMBDA github : [k \in 1..Len(github) |-> TrimText(github[k].event)])

(* the event names a worker's triggers add to its set *)
AddedEvents(worker) ==
    With(SelectSeq(worker.triggers,
                   LAMBDA trigger : /\ trigger.provider = <<"github">>
                                    /\ Len(TrimText(trigger.event)) > 0),
         LAMBDA github : [k \in 1..Len(github) |-> TrimText(github[k].event)])

compareWorkerId(left, right) == localeCompare(left.workerId, right.workerId)

collectGithubEventSubscriptions(workers) ==
    With(SelectSeq(workers,
                   LAMBDA worker : /\ worker.metadata.enabled # Some(FALSE)
                                   /\ Len(NewSet(AddedEvents(worker))) # 0),
         LAMBDA subscribed :
            SortBy([k \in 1..Len(subscribed) |->
                       [workerId |-> subscribed[k].metadata.id,
                        events |-> SortBy(NewSet(AddedEvents(subscribed[k])), localeCompare)]],
                   compareWorkerId))

collectGithubEventsFromWorkers(workers) ==
    With(collectGithubEventSubscriptions(workers),
         LAMBDA subscriptions :
            SortBy(NewSet(Flatten([k \in 1..Len(subscriptions) |-> subscriptions[k].events])),
                   localeCompare))

(***************************************************************************)
(* The worker files of a repository                                        *)
(***************************************************************************)

MaxSourceWorkers == 3

(* several triggers on one event, and the events out of order *)
WorkerTriage ==
    [WorkerFix EXCEPT
        !.metadata.id = <<"b">>,
        !.triggers = << [provider |-> <<"github">>, event |-> <<"pull_request">>,
                         actions |-> Some(<< <<"opened">> >>), if |-> None],
                        [provider |-> <<"github">>, event |-> <<"issues">>,
                         actions |-> Some(<< <<"opened">> >>), if |-> None],
                        [provider |-> <<"github">>, event |-> <<"issues", " ">>,
                         actions |-> Some(<< <<"edited">> >>), if |-> None] >>]

WorkerCapital == [WorkerReview EXCEPT !.metadata.id = <<"A">>, !.metadata.enabled = None]

WorkerFiles == {WorkerReview, WorkerLint, WorkerFix, WorkerRaw, WorkerTriage, WorkerCapital}

InitSubscription ==
    /\ \E files \in SeqsUpTo(WorkerFiles, MaxSourceWorkers) :
          /\ loadWorkers(files).ok
          /\ sourceWorkers = loadWorkers(files).value
    /\ workerSubscriptions = None
    /\ workerEvents = None
    /\ CodecIdle
    /\ RouteIdle
    /\ MintIdle
    /\ HandlerIdle
    /\ DeployIdle
    /\ ProvisionIdle
    /\ EnvironmentIdle
    /\ OverlapIdle
    /\ ScopeIdle

(* const workerSubscriptions = collectGithubEventSubscriptions(workers) *)
CollectSubscriptions ==
    /\ workerSubscriptions = None
    /\ workerSubscriptions' = Some(collectGithubEventSubscriptions(sourceWorkers))
    /\ UNCHANGED <<sourceWorkers, workerEvents>>
    /\ UNCHANGED nonSubscriptionVars

(* workerEvents: collectGithubEventsFromWorkers(workers) *)
CollectEvents ==
    /\ workerEvents = None
    /\ workerEvents' = Some(collectGithubEventsFromWorkers(sourceWorkers))
    /\ UNCHANGED <<sourceWorkers, workerSubscriptions>>
    /\ UNCHANGED nonSubscriptionVars

NextSubscription == CollectSubscriptions \/ CollectEvents

SpecSubscription == InitSubscription /\ [][NextSubscription]_vars


(***************************************************************************)
(* Properties of the event subscriptions                                   *)
(***************************************************************************)

Collected == workerSubscriptions # None /\ workerEvents # None

(* the list rises strictly: it is sorted and holds nothing twice *)
StrictlyAscending(list) ==
    \A k \in 1..(Len(list) - 1) : localeCompare(list[k], list[k + 1]) < 0

ElementsOf(list) == {list[k] : k \in 1..Len(list)}

(* the github event names of a worker *)
GithubEventNames(worker) ==
    {worker.triggers[k].event :
        k \in {j \in 1..Len(worker.triggers) : worker.triggers[j].provider = <<"github">>}}

IsDisabled(worker) == worker.metadata.enabled = Some(FALSE)

EntriesOf(worker) ==
    {k \in 1..Len(workerSubscriptions[1]) :
        workerSubscriptions[1][k].workerId = worker.metadata.id}

(* C22: every enabled worker with a github trigger has exactly one entry,  *)
(* whose events are the sorted, duplicate-free set of its github event     *)
(* names; a disabled worker has no entry; the entries are sorted by worker *)
(* id; and collectGithubEventsFromWorkers is the sorted union of the       *)
(* entries' events                                                         *)
C22_SubscriptionsPerEnabledWorker ==
    Collected =>
        /\ \A w \in ElementsOf(sourceWorkers) :
              IF ~IsDisabled(w) /\ GithubEventNames(w) # {}
              THEN /\ Cardinality(EntriesOf(w)) = 1
                   /\ \A k \in EntriesOf(w) :
                         /\ StrictlyAscending(workerSubscriptions[1][k].events)
                         /\ ElementsOf(workerSubscriptions[1][k].events) = GithubEventNames(w)
              ELSE EntriesOf(w) = {}
        /\ \A k \in 1..Len(workerSubscriptions[1]) :
              \E w \in ElementsOf(sourceWorkers) : k \in EntriesOf(w)
        /\ \A k \in 1..(Len(workerSubscriptions[1]) - 1) :
              localeCompare(workerSubscriptions[1][k].workerId,
                            workerSubscriptions[1][k + 1].workerId) <= 0
        /\ StrictlyAscending(workerEvents[1])
        /\ ElementsOf(workerEvents[1]) =
              UNION {ElementsOf(workerSubscriptions[1][k].events) :
                        k \in 1..Len(workerSubscriptions[1])}

(* three files out of order, one of them disabled, one with two triggers   *)
(* on one event: two entries, and the events of both in one sorted list    *)
C22_Witness ==
    /\ Collected
    /\ Len(sourceWorkers) = 3
    /\ sourceWorkers[1].metadata.id = <<"b">>
    /\ IsDisabled(sourceWorkers[2])
    /\ sourceWorkers[3].metadata.id = <<"A">>
    /\ workerSubscriptions[1] =
          << [workerId |-> <<"A">>, events |-> << <<"pull_request">> >>],
             [workerId |-> <<"b">>, events |-> << <<"issues">>, <<"pull_request">> >>] >>
    /\ workerEvents[1] = << <<"issues">>, <<"pull_request">> >>


(***************************************************************************)
(* Properties of the execution context                                     *)
(***************************************************************************)

(* the load fetched the stack parameters: it sent DescribeStacks, whose    *)
(* answer is decoded when a stack is found                                 *)
Fetched(k) == loads[k].describes = 1

SucceededBefore(j) == \E k \in 1..(j - 1) : loads[k].ok

(* the function was deployed with a workers stack and a manifest checksum *)
ManifestDeployed == workersStackName(lambdaEnv) # <<>> /\ workersSha256(lambdaEnv) # <<>>

(* C23: the manifest is fetched lazily, by a load for a verified message,  *)
(* and at most once with success: a load fetches exactly when no load      *)
(* before it succeeded, so every load after a successful one reuses the    *)
(* cache without a describe-stack call, and a failed load leaves nothing   *)
(* cached, so that the next load fetches again; a function deployed        *)
(* without manifest fetches and caches nothing                             *)
C23_ManifestLoadedOncePerContext ==
    /\ \A j \in 1..Len(loads) :
          /\ loads[j].record \in verified
          /\ Fetched(j) <=> ManifestDeployed /\ ~SucceededBefore(j)
          /\ ~Fetched(j) => loads[j].ok
    /\ cachedWorkers # None <=> ManifestDeployed /\ SucceededBefore(Len(loads) + 1)
    /\ cachedWorkers # None => cachedWorkers[1].sha256 = workersSha256(lambdaEnv)
    /\ Cardinality({k \in 1..Len(loads) : Fetched(k) /\ loads[k].ok}) <= 1

(* the load for the first message found no stack and the invocation        *)
(* rejected; the load for the second message fetched again and succeeded   *)
C23_Witness ==
    /\ Len(loads) = 2
    /\ Fetched(1) /\ ~loads[1].ok
    /\ Fetched(2) /\ loads[2].ok
    /\ cachedWorkers # None
    /\ cachedWorkers[1].manifest # None

(* the load for the second message of the context reused what the load for *)
(* the first had cached, though the stack had been rewritten in between    *)
ReusedAfterRewrite ==
    /\ Len(loads) = 2
    /\ Fetched(1) /\ loads[1].ok
    /\ ~Fetched(2)
    /\ stack # None
    /\ OrEmpty(TrimmedParam(stack[1], WORKERS_SHA256_PARAM)) # workersSha256(lambdaEnv)

(* the checksum the stack parameters hold: None when there is no stack *)
StackChecksum == IF stack = None THEN None ELSE Some(OrEmpty(TrimmedParam(stack[1], WORKERS_SHA256_PARAM)))

(* the manifests whose deploy gives the function's checksum *)
ManifestsOfChecksum ==
    {m \in DeployedManifests : StackParametersOf(m)[WORKERS_SHA256_PARAM] = lambdaEnv.WORKERS_SHA256}

(* what a function reads from the stack parameters a deploy of m wrote *)
DeployedWorkers ==
    [m \in DeployedManifests |-> decodeWorkerManifest(StackParametersOf(m)).manifest]

LoadMade == Len(loads') = Len(loads) + 1

(* a load fetches parameters whose checksum is not the function's: the    *)
(* load fails, the invocation rejects, nothing is cached and nothing       *)
(* launched; and a load that fetches with success found the function's     *)
(* checksum in the stack                                                   *)
MismatchFails ==
    LoadMade /\ loads'[Len(loads')].describes = 1 =>
        IF StackChecksum # Some(workersSha256(lambdaEnv))
        THEN /\ ~loads'[Len(loads')].ok
             /\ pc' = "failed"
             /\ thrown' # None
             /\ cachedWorkers' = None
             /\ launches' = launches
        ELSE loads'[Len(loads')].ok => cachedWorkers' # None

(* what is cached is the manifest of the function's checksum, a record     *)
(* whose load failed has no launch, and a function deployed with a         *)
(* manifest launches tasks for workers of that manifest only, never the    *)
(* task of the path without manifest                                       *)
OnlyDeployedManifestUsed ==
    /\ cachedWorkers # None =>
          /\ cachedWorkers[1].sha256 = workersSha256(lambdaEnv)
          /\ \E m \in ManifestsOfChecksum :
                cachedWorkers[1].manifest = DeployedWorkers[m]
    /\ \A j \in 1..Len(loads) : ~loads[j].ok => LaunchesFor(loads[j].record) = {}
    /\ ManifestDeployed =>
          \A k \in 1..Len(launches) :
             \E m \in ManifestsOfChecksum :
                \E w \in ElementsOf(DeployedWorkers[m][1].workers) :
                   Holds(launches[k].environment, "SKIPPER_WORKER_ID", w.metadata.id)

RawBodyOf(body) == decodeBase64(OrElse(body.rawBodyB64, <<>>))

InvalidEnvelope(body) == body.format # "json"

InvalidPayloadJson(body) ==
    /\ body.format = "json"
    /\ \A payload \in Payloads : PayloadJson(payload) # RawBodyOf(body)

InvalidSignature(body) == ReachesSignatureCheck(body) /\ ~SignatureVerifies(body)

LoadFailed(r) == \E j \in LoadsFor(r) : ~loads[j].ok

(* the payload names no clone URL and no repository to derive one from *)
NoCloneUrl(body) ==
    \E payload \in Payloads :
       /\ PayloadJson(payload) = RawBodyOf(body)
       /\ \/ payload.repository = None
          \/ /\ Falsy(OptTrim(payload.repository[1].clone_url))
             /\ Falsy(OptTrim(payload.repository[1].full_name))

LoadedWithoutCloneUrl(r) ==
    /\ r \in verified
    /\ \E j \in LoadsFor(r) : loads[j].ok
    /\ NoCloneUrl(event[r])

RejectedAt(r, messages) ==
    /\ pc = "failed"
    /\ recordIndex = r
    /\ thrown # None
    /\ thrown[1] \in messages

(* handleRecord has not returned for record r, and once it is past the     *)
(* named steps for r, handler has rejected with one of the messages        *)
NotSwallowed(r, steps, messages) ==
    /\ recordIndex <= r
    /\ recordIndex = r => pc \in steps \/ RejectedAt(r, messages)

ManifestErrors ==
    {"stack not found", "worker manifest hash mismatch between lambda env and stack params",
     "invalid worker chunk count", "invalid JSON for worker manifest", "gunzip failed"}

ErrorsRethrown ==
    /\ thrown # None <=> pc = "failed"
    /\ \A r \in 1..Len(event) :
          /\ InvalidEnvelope(event[r]) =>
                NotSwallowed(r, {"receive"}, {"invalid queue envelope"})
          /\ InvalidPayloadJson(event[r]) =>
                NotSwallowed(r, {"receive"},
                             {"invalid JSON for github payload", "invalid github payload"})
          /\ InvalidSignature(event[r]) =>
                NotSwallowed(r, {"receive", "verify"}, {"invalid webhook signature"})
          /\ LoadFailed(r) => RejectedAt(r, ManifestErrors)
          /\ LoadedWithoutCloneUrl(r) => RejectedAt(r, {"missing repository clone url"})
    /\ pc = "failed" =>
          \A r \in (recordIndex + 1)..Len(event) :
             /\ r \notin verified \cup skipped
             /\ LoadsFor(r) = {}
             /\ LaunchesFor(r) = {}

RejectedIsFinal ==
    pc = "failed" =>
        UNCHANGED <<recordIndex, pc, inflight, verified, skipped, loads, launches, thrown,
                    cachedWorkers>>

(* C25: an invalid envelope, an invalid signature, payload text that is no *)
(* JSON, a failed manifest load and a missing clone URL each make the      *)
(* invocation reject with that error, handleRecord never returns for such  *)
(* a record, and the records behind it in the batch are not processed in   *)
(* that invocation                                                         *)
C25_InvocationErrorsRethrown == []ErrorsRethrown /\ [][RejectedIsFinal]_vars

(* the first record of two was verified, the manifest was loaded, and the  *)
(* payload named no repository: the invocation rejected and the second     *)
(* record, a valid delivery, was left alone                                *)
C25_Witness ==
    /\ Len(event) = 2
    /\ LoadedWithoutCloneUrl(1)
    /\ RejectedAt(1, {"missing repository clone url"})
    /\ event[2] = RecordIssue
    /\ 2 \notin verified


(***************************************************************************)
(* Properties of a message no worker is matched for                        *)
(***************************************************************************)

PayloadOf(body) == CHOOSE payload \in Payloads : PayloadJson(payload) = RawBodyOf(body)

WebhookMetaOf(body) == readWebhookMeta(normalizeHeaders(body.headers))[1]

(* record r was verified, its load gave a manifest, and the manifest has   *)
(* no worker for the message (none that the function is scoped to)         *)
RoutedToNone(r) ==
    /\ r \in verified
    /\ \E j \in LoadsFor(r) : loads[j].ok
    /\ cachedWorkers # None
    /\ cachedWorkers[1].manifest # None
    /\ filterWorkersById(routeWorkers(cachedWorkers[1].manifest[1],
                                      RouteContextOf(PayloadOf(event[r]),
                                                     WebhookMetaOf(event[r]))),
                         workerIdFilter(lambdaEnv)) = <<>>

EndedWithoutError(r) ==
    /\ recordIndex > r
    /\ LaunchesFor(r) = {}
    /\ tokenMints = 0

(* C26: a verified message that routes to zero workers under a present     *)
(* manifest ends without error: no task is launched, no credential minted, *)
(* nothing is thrown, and handler goes on to the next record               *)
C26_EmptyRoutingIsTerminal ==
    \A r \in 1..Len(event) : RoutedToNone(r) => EndedWithoutError(r)

(* the same for the messages whose payload names a repository *)
C26_EmptyRoutingIsTerminalGivenCloneUrl ==
    \A r \in 1..Len(event) :
       RoutedToNone(r) /\ ~NoCloneUrl(event[r]) => EndedWithoutError(r)

(* a verified pull-request message for which the manifest has no worker    *)
(* was passed over, and handler went on to the second record               *)
EmptyRoutingPassed ==
    /\ Len(event) = 2
    /\ RoutedToNone(1)
    /\ ~NoCloneUrl(event[1])
    /\ recordIndex = 2
    /\ pc = "verify"

(***************************************************************************)
(* decodeWorkerManifest over stack parameters that were written by hand:   *)
(* the parameters of a deploy, with the chunk count, the checksum, the     *)
(* encoding id, the schema version and the first chunk each replaced by    *)
(* one of a few values                                                     *)
(***************************************************************************)

ParameterManifests == {[workers |-> <<w>>] : w \in {WorkerReview, WorkerRaw, WorkerBadId}}

Padded(text) == << <<" ">> >> \o text \o << <<" ">> >>

ChunkCountValues(written) ==
    { None, Some(<<>>), Some(<< <<" ">> >>), Some(String(0)), Some(Padded(String(0))),
      Some(String(-1)), Some(<< <<"x">> >>), Some(String(1) \o << <<"x">> >>),
      Some(String(WORKER_CHUNK_COUNT)), Some(String(WORKER_CHUNK_COUNT + 1)), written }

ChecksumValues(written) ==
    { None, Some(<<>>), Some(<< <<" ">> >>), Some(<< <<"bad">> >>), written, Some(Padded(written[1])) }

TagValues(expected) ==
    { None, Some(<<>>), Some(expected), Some(Padded(expected)), Some(expected \o << <<"+">> >>) }

FirstChunkValues(written) == { written, Some(<< <<"bad">> >>) }

FirstChunkKey == listWorkerChunkParameterKeys[1]

ParameterMaps(written) ==
    { [written EXCEPT ![WORKERS_CHUNK_COUNT_PARAM] = chunkCount,
                      ![WORKERS_SHA256_PARAM] = sha,
                      ![WORKERS_ENCODING_PARAM] = encoding,
                      ![WORKERS_SCHEMA_VERSION_PARAM] = schemaVersion,
                      ![FirstChunkKey] = chunk] :
        chunkCount \in ChunkCountValues(written[WORKERS_CHUNK_COUNT_PARAM]),
        sha \in ChecksumValues(written[WORKERS_SHA256_PARAM]),
        encoding \in TagValues(WORKERS_ENCODING),
        schemaVersion \in TagValues(WORKER_SCHEMA_VERSION),
        chunk \in FirstChunkValues(written[FirstChunkKey]) }

InitParameters ==
    /\ manifest \in ParameterManifests
    /\ encodeResult = Some(EncodingOf[manifest])
    /\ parameterValues \in ParameterMaps(encodeResult[1].value.parameterValues)
    /\ decodeResult = None
    /\ update = None
    /\ RouteIdle
    /\ MintIdle
    /\ HandlerIdle
    /\ DeployIdle
    /\ ProvisionIdle
    /\ SubscriptionIdle
    /\ EnvironmentIdle
    /\ OverlapIdle
    /\ ScopeIdle

NextParameters == Decode

SpecParameters == InitParameters /\ [][NextParameters]_vars

(***************************************************************************)
(* Properties of decodeWorkerManifest over hand-written parameters         *)
(***************************************************************************)

ParametersRead == decodeResult # None

CountField == parameterValues[WORKERS_CHUNK_COUNT_PARAM]
ChecksumField == parameterValues[WORKERS_SHA256_PARAM]
EncodingField == parameterValues[WORKERS_ENCODING_PARAM]
SchemaVersionField == parameterValues[WORKERS_SCHEMA_VERSION_PARAM]

CountAbsentOrEmpty == CountField = None \/ CountField = Some(<<>>)

CountZero == ~CountAbsentOrEmpty /\ parseInt(CountField[1]) = Some(0)

(* negative, greater than the number of slots, or without a leading integer *)
CountInvalid ==
    /\ ~CountAbsentOrEmpty
    /\ \/ parseInt(CountField[1]) = None
       \/ parseInt(CountField[1])[1] < 0
       \/ parseInt(CountField[1])[1] > WORKER_CHUNK_COUNT

ChecksumAbsentOrEmpty == ChecksumField = None \/ ChecksumField = Some(<<>>)

ChecksumAbsentOrBlank == ChecksumField = None \/ TrimParam(ChecksumField[1]) = <<>>

IsTag(field, expected) == field # None /\ TrimParam(field[1]) = expected

TagsMismatch ==
    \/ ~IsTag(EncodingField, WORKERS_ENCODING)
    \/ ~IsTag(SchemaVersionField, WORKER_SCHEMA_VERSION)

TagError ==
    IF CountInvalid THEN "invalid worker chunk count"
    ELSE IF ~IsTag(EncodingField, WORKERS_ENCODING) THEN "unsupported workers encoding"
    ELSE "unsupported workers schema version"

(* C27, as stated: with a non-zero chunk count and a non-empty checksum,   *)
(* an encoding id or schema version that is not exactly the expected       *)
(* value makes decodeWorkerManifest fail with an error                     *)
C27_TagMismatchFails ==
    (/\ ParametersRead
     /\ ~CountAbsentOrEmpty /\ ~CountZero
     /\ ~ChecksumAbsentOrEmpty
     /\ \/ EncodingField # Some(WORKERS_ENCODING)
        \/ SchemaVersionField # Some(WORKER_SCHEMA_VERSION))
        => decodeResult[1].kind = "error"

(* C27, amended: with a non-zero chunk count and a checksum that is not    *)
(* blank, an encoding id or schema version whose trimmed value is not      *)
(* exactly the expected one makes decodeWorkerManifest fail, and with the  *)
(* error of the chunk count or of the tag, whatever the chunks hold:       *)
(* nothing was reassembled, decompressed or parsed                         *)
C27_TrimmedTagMismatchFails ==
    (/\ ParametersRead
     /\ ~CountAbsentOrEmpty /\ ~CountZero
     /\ ~ChecksumAbsentOrBlank
     /\ TagsMismatch)
        => decodeResult[1] = DecodeError(TagError)

C27_Witness ==
    /\ ParametersRead
    /\ manifest = [workers |-> <<WorkerReview>>]
    /\ parameterValues =
          [encodeResult[1].value.parameterValues
              EXCEPT ![WORKERS_ENCODING_PARAM] = Some(WORKERS_ENCODING \o << <<"+">> >>)]
    /\ decodeResult[1] = DecodeError("unsupported workers encoding")

(* the padded tags pass: what the statement of C27 leaves out *)
PaddedTagsDecoded ==
    /\ ParametersRead
    /\ EncodingField = Some(Padded(WORKERS_ENCODING))
    /\ SchemaVersionField = Some(Padded(WORKER_SCHEMA_VERSION))
    /\ decodeResult[1].kind = "manifest"

NoManifestCase == CountAbsentOrEmpty \/ CountZero \/ ChecksumAbsentOrBlank

(* C28, as stated: 'no manifest' exactly when the chunk count is absent,   *)
(* empty or zero or the checksum is absent or blank; otherwise a manifest  *)
(* or an error, and an invalid chunk count is an error                     *)
C28_NoManifestExactlyWhenUnset ==
    ParametersRead =>
        /\ decodeResult[1] = DecodedUndefined <=> NoManifestCase
        /\ decodeResult[1].kind \in {"undefined", "manifest", "error"}
        /\ CountInvalid => decodeResult[1].kind = "error"

(* C28, amended: 'no manifest' exactly when the chunk count is not         *)
(* invalid and either it is absent, empty or zero or the checksum is       *)
(* absent or blank; otherwise a manifest whose workers are all in the      *)
(* form parseWorkerDefinition returns, or an error; an invalid chunk count *)
(* is always the error `invalid worker chunk count`                        *)
C28_NoManifestExactlyWhenUnsetAndCountValid ==
    ParametersRead =>
        /\ decodeResult[1] = DecodedUndefined <=> (~CountInvalid /\ NoManifestCase)
        /\ decodeResult[1].kind \in {"undefined", "manifest", "error"}
        /\ decodeResult[1].kind = "manifest" => InParsedForm(decodeResult[1].manifest[1])
        /\ CountInvalid => decodeResult[1] = DecodeError("invalid worker chunk count")

C28_Witness ==
    /\ ParametersRead
    /\ CountField = Some(String(WORKER_CHUNK_COUNT))
    /\ ChecksumField = Some(<< <<" ">> >>)
    /\ IsTag(EncodingField, WORKERS_ENCODING)
    /\ decodeResult[1] = DecodedUndefined

(* a hand-written worker comes back in parsed form, not as written *)
RawWorkerNormalised ==
    /\ ParametersRead
    /\ manifest = [workers |-> <<WorkerRaw>>]
    /\ decodeResult[1].kind = "manifest"
    /\ decodeResult[1].manifest[1] # manifest

(***************************************************************************)
(* Properties of the order of handleRecord's steps                         *)
(***************************************************************************)

(* handleRecord holds the parsed payload of record r among its locals *)
PayloadParsed(r) == recordIndex = r /\ inflight # None

(* C29: the steps of a message are taken in the order envelope, headers,   *)
(* signature, payload, manifest, routing: the payload of a record is       *)
(* parsed only once its signature has been verified, the manifest is       *)
(* loaded only for a verified record, and a task is launched only after    *)
(* the manifest was loaded for the record                                  *)
C29_PayloadParsedAfterSignature ==
    \A r \in 1..Len(event) :
       /\ PayloadParsed(r) => r \in verified
       /\ LoadsFor(r) # {} => r \in verified
       /\ LaunchesFor(r) # {} => \E j \in LoadsFor(r) : loads[j].ok

(* the part of the order that handleRecord keeps: signature, then          *)
(* manifest, then routing, and nothing after a skip                        *)
C29_ManifestAndRoutingAfterSignature ==
    \A r \in 1..Len(event) :
       /\ LoadsFor(r) # {} => r \in verified
       /\ LaunchesFor(r) # {} => \E j \in LoadsFor(r) : loads[j].ok
       /\ r \in skipped => (r \notin verified /\ LoadsFor(r) = {} /\ LaunchesFor(r) = {})

(* a forged delivery was rejected, with its payload parsed before that *)
ForgedPayloadParsed ==
    /\ pc = "failed"
    /\ thrown = Some("invalid webhook signature")
    /\ event[recordIndex] = RecordForged
    /\ inflight # None
    /\ inflight[1].payload = PayloadIssueOpened

(***************************************************************************)
(* The router against the rule it is specified by                          *)
(***************************************************************************)

(* the actions list is unset, or the context's action is one of its entries *)
ActionAccepted(trigger, ctx) ==
    \/ trigger.actions = None
    \/ ctx.action # None /\ IsMember(trigger.actions[1], ctx.action[1])

(* trigger and context both supply draft, and the two booleans differ *)
DraftRejects(trigger, ctx) ==
    /\ trigger.if # None
    /\ trigger.if[1].draft # None
    /\ ctx.draft # None
    /\ trigger.if[1].draft[1] # ctx.draft[1]

ListsSatisfied(trigger, ctx) ==
    \/ trigger.if = None
    \/ /\ FilterSatisfied(trigger.if[1].repository, ctx.repository)
       /\ FilterSatisfied(trigger.if[1].baseBranches, ctx.baseBranch)
       /\ FilterSatisfied(trigger.if[1].headBranches, ctx.headBranch)

ReferenceTrigger(trigger, ctx) ==
    /\ trigger.provider = ctx.provider
    /\ trigger.event = ctx.event
    /\ ActionAccepted(trigger, ctx)
    /\ ListsSatisfied(trigger, ctx)
    /\ ~DraftRejects(trigger, ctx)

ReferenceWorker(worker, ctx) ==
    /\ worker.metadata.enabled # Some(FALSE)
    /\ \E j \in 1..Len(worker.triggers) : ReferenceTrigger(worker.triggers[j], ctx)

TriggersOf(m) ==
    UNION {{m.workers[k].triggers[j] : j \in 1..Len(m.workers[k].triggers)} : k \in 1..Len(m.workers)}

(* C30: a worker of the manifest is in the result of routeWorkers exactly  *)
(* when it is not disabled and one of its triggers has the context's       *)
(* provider and event, an actions list that is unset or holds the          *)
(* context's action, every repository and branch list satisfied, and no    *)
(* draft filter that differs from a draft value the context carries; a set *)
(* actions list never matches a context without action, and a draft filter *)
(* never rejects a context without draft value                             *)
C30_RouterAgreesWithReference ==
    Routed =>
        /\ \A k \in 1..Len(routeManifest.workers) :
              IsMember(matched[1], routeManifest.workers[k])
                  <=> ReferenceWorker(routeManifest.workers[k], context)
        /\ \A trigger \in TriggersOf(routeManifest) :
              /\ matchesTrigger(trigger, context) <=> ReferenceTrigger(trigger, context)
              /\ (trigger.actions # None /\ context.action = None)
                    => ~matchesTrigger(trigger, context)
              /\ (context.draft = None /\ trigger.if # None /\ trigger.if[1].draft # None)
                    => (matchesTrigger(trigger, context)
                           <=> matchesTrigger([trigger EXCEPT !.if[1].draft = None], context))

(* a context without action and without draft: the worker with a draft     *)
(* filter is routed, the worker with an actions list is not                *)
C30_Witness ==
    /\ Routed
    /\ routeManifest = [workers |-> <<WorkerReview, RouteWorkerA>>]
    /\ context.event = <<"pull_request">>
    /\ context.action = None
    /\ context.draft = None
    /\ matched[1] = <<RouteWorkerA>>

(* an action that is not in the trigger's list keeps the worker out *)
OtherActionNotRouted ==
    /\ Routed
    /\ routeManifest = [workers |-> <<WorkerReview>>]
    /\ context.event = <<"pull_request">>
    /\ context.action = Some(<<"closed">>)
    /\ matched[1] = <<>>

(***************************************************************************)
(* Properties of worker ids within a manifest                              *)
(***************************************************************************)

DistinctIds(workers) ==
    \A j, k \in 1..Len(workers) : j # k => workers[j].metadata.id # workers[k].metadata.id

(* C31: every manifest decodeWorkerManifest returns has pairwise-distinct  *)
(* worker ids                                                              *)
C31_DecodedIdsUnique ==
    (decodeResult # None /\ decodeResult[1].kind = "manifest")
        => DistinctIds(decodeResult[1].manifest[1].workers)

(* the workers loadWorkers returned have pairwise-distinct ids *)
C31_LoadedIdsUnique == workersLoaded # None => DistinctIds(workersLoaded[1])

(* a manifest with the same id twice was encoded and came back from        *)
(* decodeWorkerManifest as it was                                          *)
DuplicateIdsDecoded ==
    /\ manifest = [workers |-> <<WorkerReview, WorkerReview>>]
    /\ decodeResult = Some(Decoded(manifest))

(***************************************************************************)
(* The environment built for a matched worker (buildTaskEnvironments,      *)
(* buildWorkerTaskEnvironment), over the runtime sections a parsed worker  *)
(* can have                                                                *)
(***************************************************************************)

RuntimeModes == {None, Some(<<"apply">>), Some(<<"comment-only">>)}

RuntimeEnvs ==
    { None, Some(<<>>), Some(<< <<"KEY", "value">> >>),
      Some(<< <<"GITHUB_TOKEN", "mine">> >>),
      Some(<< <<"SKIPPER_ALLOW_PUSH", "1">>, <<"PROMPT", "other">> >>),
      Some(<< <<"ECS_AGENT", "x">>, <<"GITHUB_EVENT", "push">> >>) }

EnvironmentWorkers ==
    { [WorkerFix EXCEPT !.runtime.mode = mode, !.runtime.allowPush = allowPush,
                        !.runtime.agent = agent, !.runtime.env = entries] :
        mode \in RuntimeModes, allowPush \in {None, Some(TRUE), Some(FALSE)},
        agent \in {None, Some(<<"claude">>)}, entries \in RuntimeEnvs }

ProcessEnvs ==
    { [BareLambdaEnv EXCEPT !.GITHUB_TOKEN = token, !.ANTHROPIC_API_KEY = key] :
        token \in {None, Some(<<"ghs-injected">>)}, key \in {None, Some(<<"sk-ant">>)} }

(* the headers of the delivery the worker was matched for *)
TaskWebhookMeta ==
    [signature |-> <<"sha256=sig">>, githubEvent |-> <<"issues">>, deliveryId |-> <<"d-1">>]

InitEnvironment ==
    /\ taskWorker \in EnvironmentWorkers
    /\ parseWorkerDefinition(taskWorker) = Ok(taskWorker)
    /\ taskPayload \in {Some(PayloadIssueOpened), Some(PayloadPullOpened)}
    /\ taskProcessEnv \in ProcessEnvs
    /\ taskEnvironment = None
    /\ CodecIdle
    /\ RouteIdle
    /\ MintIdle
    /\ HandlerIdle
    /\ DeployIdle
    /\ ProvisionIdle
    /\ SubscriptionIdle
    /\ OverlapIdle
    /\ ScopeIdle

(* buildTaskEnvironments for a manifest whose matched worker is taskWorker *)
BuildEnvironment ==
    /\ taskEnvironment = None
    /\ taskEnvironment' =
          Some(buildWorkerTaskEnvironment(
                   BaseEnvironment(taskPayload[1], TaskWebhookMeta,
                                   resolveRepositoryUrl(taskPayload[1])[1]),
                   taskWorker, taskProcessEnv))
    /\ UNCHANGED <<taskWorker, taskPayload, taskProcessEnv>>
    /\ UNCHANGED nonEnvironmentVars

NextEnvironment == BuildEnvironment

SpecEnvironment == InitEnvironment /\ [][NextEnvironment]_vars

(***************************************************************************)
(* Properties of the environment of a worker                               *)
(***************************************************************************)

EnvironmentBuilt == taskEnvironment # None

EntriesNamed(name) == {k \in 1..Len(taskEnvironment[1]) : taskEnvironment[1][k].name = name}

(* the value of the entry buildWorkerTaskEnvironment writes under a name:   *)
(* the first of that name, the entries of runtime.env coming after the     *)
(* fixed ones                                                              *)
Written(name) == taskEnvironment[1][SetMin(EntriesNamed(name))].value

EffectiveMode == IF taskWorker.runtime.mode = None THEN <<"apply">> ELSE taskWorker.runtime.mode[1]

PushAllowed ==
    \/ taskWorker.runtime.allowPush = Some(TRUE)
    \/ taskWorker.runtime.allowPush = None /\ EffectiveMode # <<"comment-only">>

(* C32: the environment of a worker has the mode field and the allow-push  *)
(* flag; the flag is "1" exactly when runtime.allowPush is true, or is     *)
(* unset while the effective mode (runtime.mode, apply by default) is not  *)
(* comment-only, and "0" otherwise                                         *)
C32_AllowPushDerived ==
    EnvironmentBuilt =>
        /\ EntriesNamed("SKIPPER_WORKER_MODE") # {}
        /\ EntriesNamed("SKIPPER_ALLOW_PUSH") # {}
        /\ Written("SKIPPER_WORKER_MODE") = EffectiveMode
        /\ Written("SKIPPER_ALLOW_PUSH") \in {<<"0">>, <<"1">>}
        /\ Written("SKIPPER_ALLOW_PUSH") = <<"1">> <=> PushAllowed

(* a comment-only worker that leaves allowPush unset gets "0" *)
C32_Witness ==
    /\ EnvironmentBuilt
    /\ taskWorker.runtime.mode = Some(<<"comment-only">>)
    /\ taskWorker.runtime.allowPush = None
    /\ Written("SKIPPER_ALLOW_PUSH") = <<"0">>

(* a comment-only worker with allowPush true gets "1" *)
OverrideAllowsPush ==
    /\ EnvironmentBuilt
    /\ taskWorker.runtime.mode = Some(<<"comment-only">>)
    /\ taskWorker.runtime.allowPush = Some(TRUE)
    /\ Written("SKIPPER_ALLOW_PUSH") = <<"1">>

NamesOf(entries) == {entries[k].name : k \in 1..Len(entries)}

(* the names buildWorkerTaskEnvironment and the base environment write *)
FixedNames ==
    NamesOf(BaseEnvironment(taskPayload[1], TaskWebhookMeta, <<"url">>))
        \cup {"PROMPT", "SKIPPER_WORKER_ID", "SKIPPER_WORKER_TYPE", "SKIPPER_WORKER_MODE",
              "SKIPPER_ALLOW_PUSH", "ECS_AGENT", "GITHUB_TOKEN", "ANTHROPIC_API_KEY"}

RuntimeEnvNames ==
    IF taskWorker.runtime.env = None THEN {}
    ELSE {taskWorker.runtime.env[1][k][1] : k \in 1..Len(taskWorker.runtime.env[1])}

(* C40: in the environment built for a worker no variable name occurs      *)
(* more than once, and the token entry is the one the function injects     *)
C40_NamesUnique ==
    EnvironmentBuilt =>
        /\ \A name \in NamesOf(taskEnvironment[1]) : Cardinality(EntriesNamed(name)) = 1
        /\ \A k \in EntriesNamed("GITHUB_TOKEN") :
              Some(taskEnvironment[1][k].value) = taskProcessEnv.GITHUB_TOKEN

(* the same for the workers whose runtime.env uses none of the fixed names *)
C40_NamesUniqueWithoutReservedKeys ==
    (EnvironmentBuilt /\ RuntimeEnvNames \cap FixedNames = {}) =>
        /\ \A name \in NamesOf(taskEnvironment[1]) : Cardinality(EntriesNamed(name)) = 1
        /\ \A k \in EntriesNamed("GITHUB_TOKEN") :
              Some(taskEnvironment[1][k].value) = taskProcessEnv.GITHUB_TOKEN

(* the worker's own GITHUB_TOKEN stands in the list before the injected one *)
TokenShadowed ==
    /\ EnvironmentBuilt
    /\ taskProcessEnv.GITHUB_TOKEN = Some(<<"ghs-injected">>)
    /\ Cardinality(EntriesNamed("GITHUB_TOKEN")) = 2
    /\ Written("GITHUB_TOKEN") = <<"mine">>

(***************************************************************************)
(* Properties of a failed exchange                                         *)
(***************************************************************************)

(* the call reached upstream, and upstream refused *)
ExchangeFailed ==
    /\ Minted
    /\ lastMint[1].exchanges = 1
    /\ ~lastMint[1].result.ok

FailedExchangeKeepsCaches ==
    ExchangeFailed =>
        /\ lastMint[1].result = Err("installation token request failed")
        /\ installationTokenCache = lastMint[1].installationTokenCache
        /\ lastMint[1].reads = 1 =>
              cachedPrivateKey = Some([value |-> TrimText(lastMint[1].read.value),
                                       loadedAtMs |-> lastMint[1].nowMs])
        /\ lastMint[1].reads = 0 => cachedPrivateKey = lastMint[1].cachedPrivateKey

SameIdCalledAgain ==
    /\ ExchangeFailed
    /\ tokenMints' + privateKeyReads' > tokenMints + privateKeyReads
    /\ lastMint'[1].installationId = lastMint[1].installationId

(* as stated: the next call for the id reaches upstream *)
ExchangesAgain == SameIdCalledAgain => lastMint'[1].exchanges = 1

(* the next call for the id reaches upstream when it has the key, and      *)
(* never answers from the cache                                            *)
ExchangesAgainGivenKey ==
    SameIdCalledAgain =>
        /\ (KeyWithinTtl \/ StoreHadKey)' => lastMint'[1].exchanges = 1
        /\ ~(KeyWithinTtl \/ StoreHadKey)' =>
              /\ lastMint'[1].exchanges = 0
              /\ lastMint'[1].reads = 1
              /\ ~lastMint'[1].result.ok

(* C33, as stated: a failed exchange is the error of the call and leaves   *)
(* the token cache as it was, the key loaded by the call stays cached, and *)
(* the next call for the same id makes the exchange again                  *)
C33_FailedExchangeRetried == []FailedExchangeKeepsCaches /\ [][ExchangesAgain]_vars

(* C33, amended: the next call for the same id makes the exchange again    *)
(* when the signing key is to be had (cached within its TTL, or read       *)
(* non-blank from the store); otherwise it fails at the key, without an    *)
(* exchange                                                                *)
C33_FailedExchangeRetriedGivenKey ==
    []FailedExchangeKeepsCaches /\ [][ExchangesAgainGivenKey]_vars

(* the call read the key, upstream refused, and the key is cached while no *)
(* token is                                                                *)
C33_Witness ==
    /\ ExchangeFailed
    /\ lastMint[1].reads = 1
    /\ cachedPrivateKey # None
    /\ lastMint[1].cachedPrivateKey = None
    /\ \A id \in RequestedIds : installationTokenCache[id] = None

(* a second exchange for the id followed the refused one *)
RetriedAfterFailure ==
    /\ Minted
    /\ tokenMints = 2
    /\ lastMint[1].exchanges = 1
    /\ lastMint[1].result.ok
    /\ lastMint[1].reads = 0
    /\ lastMint[1].cachedToken = None

(***************************************************************************)
(* Overlapping calls of mintInstallationToken                              *)
(*                                                                         *)
(* mintInstallationToken is an async function: a call runs to its first    *)
(* await, and other calls of the same runtime can run while it waits for   *)
(* the secret store or for the exchange.  Each call keeps its own          *)
(* installationId and now; the two caches are shared.                      *)
(***************************************************************************)

MaxCalls == 2
MaxOverlapNow == 2

(* the ids the overlapping calls are made for: two installations and a     *)
(* number that is no installation id                                       *)
OverlapIds == InstallationIds \cup {JsInteger(0)}

InitOverlap ==
    /\ now = 0
    /\ keyValue \in KeyValues
    /\ RuntimeCreated
    /\ mintCalls = <<>>
    /\ storeReturned = {}
    /\ CodecIdle
    /\ RouteIdle
    /\ HandlerIdle
    /\ DeployIdle
    /\ ProvisionIdle
    /\ SubscriptionIdle
    /\ EnvironmentIdle
    /\ ScopeIdle

(* the calls that wait at an await when a call starts *)
InFlight == {k \in 1..Len(mintCalls) : mintCalls[k].pc \in {"readKey", "exchange"}}

(* the locals of a call that has started *)
StartedCall(at, installationId, nowMs, reads, exchangeNo, result) ==
    [pc |-> at, installationId |-> installationId, nowMs |-> nowMs, inFlight |-> InFlight,
     reads |-> reads, exchangeNo |-> exchangeNo, result |-> result]

(* a call runs from its start to its first await, or to its return when it *)
(* reaches none: the id test, deps.nowMs(), the token cache, then          *)
(* readPrivateKeyPemCached up to deps.readPrivateKeyPem(), or with a fresh *)
(* key buildAppJwt and deps.createInstallationAccessToken                  *)
StartCall ==
    /\ Len(mintCalls) < MaxCalls
    /\ \E installationId \in OverlapIds :
          IF ~Number_isInteger(installationId) \/ AtMostZero(installationId)
          THEN /\ mintCalls' = Append(mintCalls,
                      StartedCall("failed", installationId, 0, 0, 0,
                                  Some(Err("installation id must be positive integer"))))
               /\ UNCHANGED <<privateKeyReads, tokenMints>>
          ELSE IF TokenFresh(installationTokenCache[installationId], now)
          THEN /\ mintCalls' = Append(mintCalls,
                      StartedCall("done", installationId, now, 0, 0,
                                  Some(Ok(installationTokenCache[installationId][1].token))))
               /\ UNCHANGED <<privateKeyReads, tokenMints>>
          ELSE IF PrivateKeyFresh(cachedPrivateKey, now)
          THEN /\ mintCalls' = Append(mintCalls,
                      StartedCall("exchange", installationId, now, 0, tokenMints + 1, None))
               /\ tokenMints' = tokenMints + 1
               /\ UNCHANGED privateKeyReads
          ELSE /\ mintCalls' = Append(mintCalls,
                      StartedCall("readKey", installationId, now, 1, 0, None))
               /\ privateKeyReads' = privateKeyReads + 1
               /\ UNCHANGED tokenMints
    /\ UNCHANGED <<now, keyValue, installationTokenCache, cachedPrivateKey, lastMint,
                   storeReturned>>
    /\ UNCHANGED nonOverlapVars

(* deps.readPrivateKeyPem() settles for a call that waits for it: the rest *)
(* of readPrivateKeyPemCached is its branch for a key that is not fresh,   *)
(* with the nowMs the call read at its start; then buildAppJwt and         *)
(* deps.createInstallationAccessToken                                      *)
KeyReadSettles ==
    /\ \E c \in 1..Len(mintCalls), read \in ReadOutcomes :
          /\ mintCalls[c].pc = "readKey"
          /\ storeReturned' = IF read.ok THEN storeReturned \cup {read.value}
                                         ELSE storeReturned
          /\ \E privateKeyPem \in {readPrivateKeyPemCached(None, mintCalls[c].nowMs, read)} :
                IF ~privateKeyPem.ok
                THEN /\ mintCalls' = [mintCalls EXCEPT
                            ![c].pc = "failed",
                            ![c].result = Some(Err(privateKeyPem.error))]
                     /\ UNCHANGED <<cachedPrivateKey, tokenMints>>
                ELSE /\ cachedPrivateKey' = privateKeyPem.cachedPrivateKey
                     /\ tokenMints' = tokenMints + 1
                     /\ mintCalls' = [mintCalls EXCEPT
                            ![c].pc = "exchange",
                            ![c].exchangeNo = tokenMints + 1]
    /\ UNCHANGED <<now, keyValue, installationTokenCache, privateKeyReads, lastMint>>
    /\ UNCHANGED nonOverlapVars

(* what upstream answers to the exchange a call waits for *)
ExchangeAnswers(call) ==
    {Ok([token |-> <<"token", call.installationId, call.exchangeNo>>,
         expiresAt |-> now + lifetime]) : lifetime \in TokenLifetimes}
        \cup {Err("installation token request failed")}

(* deps.createInstallationAccessToken settles for a call that waits for    *)
(* it: installationTokenCache.set(installationId, token); return           *)
ExchangeSettles ==
    /\ \E c \in 1..Len(mintCalls) :
          /\ mintCalls[c].pc = "exchange"
          /\ \E exchange \in ExchangeAnswers(mintCalls[c]) :
                IF ~exchange.ok
                THEN /\ mintCalls' = [mintCalls EXCEPT
                            ![c].pc = "failed",
                            ![c].result = Some(Err(exchange.error))]
                     /\ UNCHANGED installationTokenCache
                ELSE /\ installationTokenCache' =
                            StoreToken(installationTokenCache, mintCalls[c].installationId,
                                       exchange.value)
                     /\ mintCalls' = [mintCalls EXCEPT
                            ![c].pc = "done",
                            ![c].result = Some(Ok(exchange.value.token))]
    /\ UNCHANGED <<now, keyValue, cachedPrivateKey, privateKeyReads, tokenMints, lastMint,
                   storeReturned>>
    /\ UNCHANGED nonOverlapVars

(* time passes while calls wait or between calls *)
ClockAdvances ==
    /\ now < MaxOverlapNow
    /\ now' = now + 1
    /\ UNCHANGED <<keyValue, installationTokenCache, cachedPrivateKey, privateKeyReads,
                   tokenMints, lastMint>>
    /\ UNCHANGED nonMintVars

NextOverlap == StartCall \/ KeyReadSettles \/ ExchangeSettles \/ ClockAdvances

SpecOverlap == InitOverlap /\ [][NextOverlap]_vars

(***************************************************************************)
(* Properties of overlapping calls                                         *)
(***************************************************************************)

(* the installation id the exchange issued a token for *)
IssuedFor(token) == token[2]

(* call c has returned a token *)
Returned(c) == mintCalls[c].pc = "done"

(* every call that returned, returned a token issued for its own id *)
ReturnsOwnToken ==
    \A c \in 1..Len(mintCalls) :
        Returned(c) =>
            /\ mintCalls[c].result[1].ok
            /\ IssuedFor(mintCalls[c].result[1].value) = mintCalls[c].installationId

(* the entry of the token cache for an id holds a token issued for the id *)
EntriesHoldOwnToken ==
    \A id \in DOMAIN installationTokenCache :
        installationTokenCache[id] # None =>
            IssuedFor(installationTokenCache[id][1].token) = id

(* the key cache holds a value the store returned, and it is not empty *)
KeyIsStoreValue ==
    cachedPrivateKey # None =>
        /\ cachedPrivateKey[1].value # <<>>
        /\ cachedPrivateKey[1].value \in storeReturned

(* the key cache holds a value the store returned with the white space at  *)
(* its ends removed, and it is not empty                                   *)
KeyIsTrimmedStoreValue ==
    cachedPrivateKey # None =>
        /\ cachedPrivateKey[1].value # <<>>
        /\ cachedPrivateKey[1].value \in {TrimText(value) : value \in storeReturned}

(* C34 as stated: under every interleaving of overlapping calls a call     *)
(* returns a token issued for its own installation id, the cache entry of  *)
(* an id holds a token issued for that id, and the key cache holds a       *)
(* non-empty value that the secret store returned                          *)
C34_CachesIsolated == ReturnsOwnToken /\ EntriesHoldOwnToken /\ KeyIsStoreValue

(* C34: under every interleaving of overlapping calls a call returns a     *)
(* token issued for its own installation id, the cache entry of an id      *)
(* holds a token issued for that id, and the key cache holds a non-empty   *)
(* value that is what the secret store returned, trimmed                   *)
C34_CachesIsolatedKeyTrimmed ==
    ReturnsOwnToken /\ EntriesHoldOwnToken /\ KeyIsTrimmedStoreValue

(* the second call, for another installation, started while the first      *)
(* waited, has returned its token and the first still waits for its        *)
(* exchange; both entries of the cache that are set are set by these calls *)
C34_Witness ==
    /\ Len(mintCalls) = 2
    /\ 1 \in mintCalls[2].inFlight
    /\ mintCalls[1].pc = "exchange"
    /\ Returned(2)
    /\ mintCalls[2].exchangeNo > 0
    /\ mintCalls[1].installationId # mintCalls[2].installationId
    /\ installationTokenCache[mintCalls[2].installationId] # None
    /\ cachedPrivateKey # None

(* the key cache holds the key without the blank the store returned it with *)
TrimmedKeyCached ==
    /\ cachedPrivateKey # None
    /\ cachedPrivateKey[1].value \notin storeReturned

(* call c went past the token cache: it found no fresh token for its id *)
MissedToken(c) ==
    /\ mintCalls[c].installationId \in InstallationIds
    /\ mintCalls[c].reads + mintCalls[c].exchangeNo > 0

(* calls a and b are for the same installation, b was started while a     *)
(* waited, both found no fresh token, and the first of them found no key   *)
OverlappingColdPair(a, b) ==
    /\ a \in mintCalls[b].inFlight
    /\ mintCalls[a].installationId = mintCalls[b].installationId
    /\ MissedToken(a)
    /\ MissedToken(b)
    /\ mintCalls[a].reads = 1

(* the exchanges calls a and b invoked *)
ExchangesOf(a, b) == Cardinality({c \in {a, b} : mintCalls[c].exchangeNo > 0})

(* the store reads calls a and b invoked *)
ReadsOf(a, b) == mintCalls[a].reads + mintCalls[b].reads

(* C35: when two calls for the same installation id are started on a cold  *)
(* or expired cache, the second before the first has completed, and both   *)
(* have returned, the exchange and the secret store were each invoked      *)
(* exactly once by the two and both returned the same token                *)
C35_OverlappingCallsShareExchange ==
    \A a, b \in 1..Len(mintCalls) :
        (OverlappingColdPair(a, b) /\ Returned(a) /\ Returned(b)) =>
            /\ ExchangesOf(a, b) = 1
            /\ ReadsOf(a, b) = 1
            /\ mintCalls[a].result = mintCalls[b].result

(* two overlapping calls for one installation have returned two tokens,    *)
(* each from an exchange of its own                                        *)
OverlappingCallsExchangedTwice ==
    \E a, b \in 1..Len(mintCalls) :
        /\ OverlappingColdPair(a, b)
        /\ Returned(a)
        /\ Returned(b)
        /\ ExchangesOf(a, b) = 2
        /\ mintCalls[a].result # mintCalls[b].result

(* an overlapping pair never invokes fewer exchanges than it has calls     *)
(* that returned: no call returns the token of another's exchange          *)
EachCallExchangesItself ==
    \A a, b \in 1..Len(mintCalls) :
        (OverlappingColdPair(a, b) /\ Returned(a) /\ Returned(b)) => ExchangesOf(a, b) = 2

(***************************************************************************)
(* Properties of token freshness                                           *)
(***************************************************************************)

(* the call returned a token without a store read and without an exchange *)
AnsweredFromCache ==
    /\ ValidCall
    /\ lastMint[1].result.ok
    /\ lastMint[1].reads = 0
    /\ lastMint[1].exchanges = 0

(* the call returned the token that was cached for its id when it started *)
ReturnedStaleToken ==
    /\ lastMint[1].cachedToken # None
    /\ lastMint[1].result = Ok(lastMint[1].cachedToken[1].token)

(* the call returned a token of an exchange of its own, which is now the   *)
(* cached token of its id                                                  *)
MintedNewToken ==
    /\ lastMint[1].result.ok
    /\ lastMint[1].exchanges = 1
    /\ ~ReturnedStaleToken
    /\ installationTokenCache[lastMint[1].installationId] # None
    /\ installationTokenCache[lastMint[1].installationId][1].token = lastMint[1].result.value

(* a call answers from the cache only with a token for which               *)
(* now < expiresAt - refreshBuffer                                         *)
CacheAnswersAreFresh ==
    AnsweredFromCache => InsideWindow /\ ReturnedStaleToken

(* C36 as stated: a call answers from the cache only with a token for      *)
(* which now < expiresAt - refreshBuffer at the call; from                 *)
(* now = expiresAt - refreshBuffer on the cached token is not returned and *)
(* a new one is minted                                                     *)
C36_FreshOrMinted ==
    /\ CacheAnswersAreFresh
    /\ PastWindow => ~ReturnedStaleToken /\ MintedNewToken

(* C36, amended: from now = expiresAt - refreshBuffer on the cached token  *)
(* is not returned; the call that succeeds has minted a new one, with the  *)
(* signing key to be had the exchange is invoked once, and a call that     *)
(* fails leaves the entry of the id as it was                              *)
C36_FreshOrMintAttempted ==
    /\ CacheAnswersAreFresh
    /\ PastWindow =>
          /\ ~ReturnedStaleToken
          /\ ~AnsweredFromCache
          /\ lastMint[1].result.ok => MintedNewToken
          /\ (KeyWithinTtl \/ StoreHadKey) => lastMint[1].exchanges = 1
          /\ ~lastMint[1].result.ok =>
                installationTokenCache[lastMint[1].installationId] = lastMint[1].cachedToken

(* a call made exactly at now = expiresAt - refreshBuffer returned a new   *)
(* token                                                                   *)
C36_Witness ==
    /\ PastWindow
    /\ lastMint[1].nowMs = lastMint[1].cachedToken[1].expiresAt - tokenRefreshBufferMs
    /\ MintedNewToken

(* a call past the window failed and the expired token is still cached *)
StaleTokenKept ==
    /\ PastWindow
    /\ ~lastMint[1].result.ok
    /\ installationTokenCache[lastMint[1].installationId] = lastMint[1].cachedToken

(***************************************************************************)
(* A provider that starts an accepted update late                          *)
(*                                                                         *)
(* UpdateStack returns when the provider has accepted the request.  Here   *)
(* the provider may still report the status the stack had before, and      *)
(* switch to UPDATE_IN_PROGRESS some time after.                           *)
(***************************************************************************)

(* the provider has accepted an update and not yet started it *)
UpdatePending == cfnStack # None /\ "accepted" \in DOMAIN cfnStack[1]

(* UpdateStack is accepted and the stack keeps its status for now; then    *)
(* waitForTerminalStatus                                                   *)
UpdateStackStartsLate ==
    /\ deployPc = "updateStack"
    /\ Send("UpdateStack")
    /\ updateAnswer' = Some([ok |-> TRUE, message |-> <<>>])
    /\ cfnStack' = Some([status |-> cfnStack[1].status, accepted |-> TRUE])
    /\ EnterWait("update")
    /\ UNCHANGED <<deployInput, current, classified, terminal, deployOutcome>>
    /\ UNCHANGED nonDeployVars

(* the provider starts the update it accepted *)
ProviderStartsUpdate ==
    /\ UpdatePending
    /\ deployPc \notin {"done", "failed"}
    /\ cfnStack' = Some([status |-> <<"UPDATE", "IN", "PROGRESS">>])
    /\ UNCHANGED <<deployInput, deployPc, clock, deadline, current, deployAction, requests,
                   updateAnswer, classified, terminal, deployOutcome>>
    /\ UNCHANGED nonDeployVars

NextDeployLate == NextDeploy \/ UpdateStackStartsLate \/ ProviderStartsUpdate

SpecDeployLate == InitDeploy /\ [][NextDeployLate]_vars

(* the poll loop has ended on a status: it returned it or threw on it *)
PollEndedOnStatus ==
    /\ deployAction = Some("update")
    /\ classified # None
    /\ classified[1].kind \in {"success", "failure"}

(* C37: after an accepted update request the poll loop ends, with success  *)
(* or with failure, only on a status the stack reached after the request:  *)
(* never on the status it had before, while the update has yet to start    *)
C37_OutcomeReflectsUpdate == PollEndedOnStatus => ~UpdatePending

(* the poll loop returned the status the stack had before the update       *)
(* request, which the provider had not started on                          *)
StaleStatusReturned ==
    /\ UpdatePending
    /\ deployPc = "getOutputs"
    /\ deployAction = Some("update")
    /\ terminal = current

(* the poll loop threw on the failure status the stack had before the      *)
(* update request                                                          *)
StaleFailureThrown ==
    /\ UpdatePending
    /\ deployPc = "failed"
    /\ classified # None
    /\ classified[1].kind = "failure"
    /\ classified[1].status = current[1]

(***************************************************************************)
(* Routing against the declared subscriptions                              *)
(*                                                                         *)
(* The deploy command declares the subscriptions of the workers it loaded; *)
(* the function routes a message over the same workers.                    *)
(***************************************************************************)

MaxCoverageWorkers == 2

(* the definitions parseWorkerDefinition returns for the worker files and  *)
(* the workers of the router                                               *)
ParsedWorkers ==
    {parseWorkerDefinition(file).value :
        file \in {f \in WorkerFiles \cup RouteWorkerPool : parseWorkerDefinition(f).ok}}

(* contexts for the events the workers name, for one they name with a      *)
(* blank after it, and for the empty event name                            *)
CoverageContexts ==
    [provider : {<<"github">>},
     event : {<<"pull_request">>, <<"issues">>, <<"issues", " ">>, <<>>},
     action : {None, Some(<<"opened">>), Some(<<"edited">>)},
     repository : {None, Some(<<"acme/api">>)},
     baseBranch : {Some(<<"main">>)},
     headBranch : {None, Some(<<"feat">>)},
     draft : {None, Some(FALSE)}]

InitCoverage ==
    /\ routeManifest \in {[workers |-> ws] : ws \in SeqsUpTo(ParsedWorkers, MaxCoverageWorkers)}
    /\ context \in CoverageContexts
    /\ matched = None
    /\ sourceWorkers = routeManifest.workers
    /\ workerSubscriptions = None
    /\ workerEvents = None
    /\ CodecIdle
    /\ MintIdle
    /\ HandlerIdle
    /\ DeployIdle
    /\ ProvisionIdle
    /\ EnvironmentIdle
    /\ OverlapIdle
    /\ ScopeIdle

NextCoverage == Route \/ CollectSubscriptions

SpecCoverage == InitCoverage /\ [][NextCoverage]_vars

(* the subscriptions hold an entry for the worker's id with the event *)
Delivers(subscriptions, worker, eventName) ==
    \E k \in 1..Len(subscriptions) :
        /\ subscriptions[k].workerId = worker.metadata.id
        /\ \E n \in 1..Len(subscriptions[k].events) : subscriptions[k].events[n] = eventName

(* C38: every worker routeWorkers returns for a context has an entry in    *)
(* collectGithubEventSubscriptions(manifest.workers) whose events contain  *)
(* the event of the context                                                *)
C38_SubscriptionsCoverRouting ==
    (matched # None /\ workerSubscriptions # None) =>
        \A k \in 1..Len(matched[1]) :
            Delivers(workerSubscriptions[1], matched[1][k], context.event)

(* a worker with several triggers was routed by a trigger that is not its  *)
(* first, on an event its file wrote with a blank, and its subscription    *)
(* holds the event                                                         *)
C38_Witness ==
    /\ matched # None
    /\ workerSubscriptions # None
    /\ \E k \in 1..Len(matched[1]) :
          /\ matched[1][k].metadata.id = <<"b">>
          /\ Len(matched[1][k].triggers) = 3
          /\ ~matchesTrigger(matched[1][k].triggers[1], context)
          /\ Delivers(workerSubscriptions[1], matched[1][k], context.event)
    /\ context.event = <<"issues">>

(* a disabled worker matches the context and has neither a subscription    *)
(* nor a place among the routed workers                                    *)
DisabledNeitherRoutedNorSubscribed ==
    /\ matched # None
    /\ workerSubscriptions # None
    /\ \E k \in 1..Len(routeManifest.workers) :
          /\ routeManifest.workers[k].metadata.enabled = Some(FALSE)
          /\ matchesWorker(routeManifest.workers[k], context)
          /\ \A n \in 1..Len(workerSubscriptions[1]) :
                workerSubscriptions[1][n].workerId # routeManifest.workers[k].metadata.id

(***************************************************************************)
(* A function instance scoped to one worker                                *)
(*                                                                         *)
(* handleRecord after verifyWebhookBody and loadWorkersManifest: the       *)
(* environments are built, and runTask is awaited for each in turn.        *)
(***************************************************************************)

MaxScopeWorkers == 2

(* two workers for the same event, one for another; a manifest may name a  *)
(* worker twice, which decodeWorkerManifest lets pass                      *)
ScopeWorkerPool == {WorkerReview, WorkerCapital, WorkerFix}

ScopeManifests ==
    {None} \cup {Some([workers |-> ws]) : ws \in SeqsUpTo(ScopeWorkerPool, MaxScopeWorkers)}

ScopeMessages ==
    {[payload |-> PayloadPullOpened,
      webhookMeta |-> [TaskWebhookMeta EXCEPT !.githubEvent = <<"pull_request">>]],
     [payload |-> [PayloadIssueOpened EXCEPT
                      !.repository[1].clone_url = Some(<<"https://git/acme/repo">>)],
      webhookMeta |-> TaskWebhookMeta],
     [payload |-> PayloadIssueOpened, webhookMeta |-> TaskWebhookMeta]}

(* SKIPPER_WORKER_ID of the instance: unset, a worker id, the id with a     *)
(* blank, the id of no worker                                              *)
ScopeIds == {None, Some(<<"review">>), Some(<<"A">>), Some(<<"review", " ">>), Some(<<"ghost">>)}

InitScope ==
    /\ scopeManifest \in ScopeManifests
    /\ scopeMessage \in {Some(message) : message \in ScopeMessages}
    /\ scopeEnv \in {[BareLambdaEnv EXCEPT !.SKIPPER_WORKER_ID = id, !.PROMPT = Some(<<"Fix">>)] :
                        id \in ScopeIds}
    /\ scopePc = "buildTaskEnvironments"
    /\ scopeEnvironments = None
    /\ scopeLaunched = <<>>
    /\ CodecIdle
    /\ RouteIdle
    /\ MintIdle
    /\ HandlerIdle
    /\ DeployIdle
    /\ ProvisionIdle
    /\ SubscriptionIdle
    /\ EnvironmentIdle
    /\ OverlapIdle

(* const environments = buildTaskEnvironments(payload, webhookMeta, workers) *)
(* and the return of handleRecord when there are none                        *)
BuildScoped ==
    /\ scopePc = "buildTaskEnvironments"
    /\ \E environments \in {buildTaskEnvironments(scopeMessage[1].payload,
                                                  scopeMessage[1].webhookMeta,
                                                  scopeManifest, scopeEnv)} :
          /\ scopeEnvironments' = Some(environments)
          /\ scopePc' = IF ~environments.ok THEN "failed"
                        ELSE IF Len(environments.value) = 0 THEN "done"
                        ELSE "runTask"
    /\ UNCHANGED <<scopeManifest, scopeMessage, scopeEnv, scopeLaunched>>
    /\ UNCHANGED nonScopeVars

(* await runTask(environment) for the next environment: the task is        *)
(* started, or runTask throws and handleRecord with it                     *)
LaunchScoped ==
    /\ scopePc = "runTask"
    /\ scopeLaunched' =
          Append(scopeLaunched, scopeEnvironments[1].value[Len(scopeLaunched) + 1])
    /\ \E started \in BOOLEAN :
          scopePc' = IF ~started THEN "failed"
                     ELSE IF Len(scopeLaunched) + 1 = Len(scopeEnvironments[1].value) THEN "done"
                     ELSE "runTask"
    /\ UNCHANGED <<scopeManifest, scopeMessage, scopeEnv, scopeEnvironments>>
    /\ UNCHANGED nonScopeVars

NextScope == BuildScoped \/ LaunchScoped

SpecScope == InitScope /\ [][NextScope]_vars

(***************************************************************************)
(* Properties of a scoped instance                                         *)
(***************************************************************************)

(* the instance is scoped, and to this id *)
ScopedTo == workerIdFilter(scopeEnv)

Scoped == Len(ScopedTo) > 0

(* the worker a task environment names, None for the legacy task *)
TaskWorkerId(environment) ==
    With({k \in 1..Len(environment) : environment[k].name = "SKIPPER_WORKER_ID"},
         LAMBDA named : IF named = {} THEN None ELSE Some(environment[SetMin(named)].value))

(* what an instance that is not scoped routes the message to *)
UnscopedRouting ==
    routeWorkers(scopeManifest[1],
                 RouteContextOf(scopeMessage[1].payload, scopeMessage[1].webhookMeta))

RoutedIds == {UnscopedRouting[k].metadata.id : k \in 1..Len(UnscopedRouting)}

(* handleRecord has returned after launching all it built *)
ScopeEnded == scopePc = "done" /\ scopeEnvironments # None /\ scopeEnvironments[1].ok

(* a scoped instance launches at most one task, for its worker, and only   *)
(* when the unscoped routing holds its worker                              *)
LaunchesOnlyItsWorker ==
    Scoped =>
        /\ Len(scopeLaunched) <= 1
        /\ \A k \in 1..Len(scopeLaunched) : TaskWorkerId(scopeLaunched[k]) = Some(ScopedTo)
        /\ scopeLaunched # <<>> => scopeManifest # None /\ ScopedTo \in RoutedIds

(* a scoped instance without manifest fails and launches nothing *)
FailsWithoutManifest ==
    (Scoped /\ scopeManifest = None /\ scopeEnvironments # None) =>
        /\ ~scopeEnvironments[1].ok
        /\ scopePc = "failed"
        /\ scopeLaunched = <<>>

(* with unique ids, the instance of a worker has launched one task when    *)
(* the unscoped routing holds the worker and none when it does not         *)
OneTaskPerRoutedWorker ==
    (Scoped /\ scopeManifest # None /\ ScopeEnded /\ DistinctIds(scopeManifest[1].workers)) =>
        Len(scopeLaunched) = IF ScopedTo \in RoutedIds THEN 1 ELSE 0

(* C39: an instance scoped to worker W launches at most one task, only for *)
(* W and only when the unscoped routing holds W; without manifest it fails *)
(* and launches no legacy task; with unique ids the instance of each       *)
(* worker launches one task exactly when the unscoped routing holds the    *)
(* worker                                                                  *)
C39_ScopedLaunchesItsWorkerOnce ==
    LaunchesOnlyItsWorker /\ FailsWithoutManifest /\ OneTaskPerRoutedWorker

(* the same for manifests whose ids are unique *)
C39_ScopedLaunchesItsWorkerOnceUniqueIds ==
    (scopeManifest # None => DistinctIds(scopeManifest[1].workers)) =>
        C39_ScopedLaunchesItsWorkerOnce

(* a scoped instance has launched two tasks for the worker that the        *)
(* manifest names twice                                                    *)
ScopedLaunchedTwice ==
    /\ Scoped
    /\ Len(scopeLaunched) = 2
    /\ scopeManifest # None
    /\ ~DistinctIds(scopeManifest[1].workers)

(* two workers are routed and the instance of one has launched its task   *)
ScopedInstanceOfRoutedPair ==
    /\ Scoped
    /\ scopeManifest # None
    /\ DistinctIds(scopeManifest[1].workers)
    /\ Len(UnscopedRouting) = 2
    /\ ScopeEnded
    /\ Len(scopeLaunched) = 1

(* a scoped instance without manifest has thrown *)
ScopedWithoutManifestFailed ==
    /\ Scoped
    /\ scopeManifest = None
    /\ scopeEnvironments = Some(Err("worker-scoped lambda missing workers manifest"))

====
